---- MODULE Spec2Model ----
(***************************************************************************)
(* YASMI (yasmi.py): a hierarchical, concurrent state machine framework    *)
(* driven by one asyncio ticker task.                                      *)
(*                                                                         *)
(* The framework is modelled as an interpreter of its coroutines.  Every   *)
(* coroutine that is running (the ticker, and the tasks asyncio.gather     *)
(* creates for the regions of a concurrent composite) is a sequence of     *)
(* operations still to execute; one step executes the operation at the     *)
(* head.  Operations that await something that may suspend (a user hook,   *)
(* asyncio.sleep(0), the gather, the tick event) are the only points where *)
(* another task may run; the synchronous code between two awaits is        *)
(* executed without interleaving.                                          *)
(*                                                                         *)
(* The client machines are the ones of test_yasmi.py: TestStateMachine4    *)
(* (two plain composites, the second with history) and TestStateMachine5   *)
(* (a plain composite and a concurrent composite with two regions).        *)
(***************************************************************************)
EXTENDS Naturals, Sequences, FiniteSets, TLC

VARIABLES
    machine,              \* the StateMachine subclass that was constructed
    client,               \* which transition functions the client wrote
    _history,             \* composite -> whether it owns a history pseudo-state
    active_states,        \* StateMachine.active_states
    _state,               \* CompositeState._state, per plain composite
    _states,              \* ConcurrentCompositeState._states, per concurrent composite
    state_to_return_to,   \* _HistoryState.state_to_return_to, per plain composite
    states_to_return_to,  \* _ConcurrentHistoryState.states_to_return_to
    _event,               \* Event._event (the asyncio flag), per event
    _tick_event,          \* StateMachine._tick_event
    ticker,               \* the ticker task: unstarted, alive, cancelled, failed
    todo,                 \* per coroutine, the operations it still has to execute
    err,                  \* the exception the ticker task ended with
    starter,              \* the client's start call: idle, sleeping, returned
    stopper,              \* the client's stop_ticker call: idle, polling, returned
    stopped_event,        \* the stopped_event the client passes to stop_ticker
    before,               \* per coroutine, the active_states its _transition_to call
                          \* in progress found (an observation, << >> when none)
    calls,                \* Mock._calls: what ran in the current tick pass (under
                          \* EventSpec: the client's operations on the events)
    actions               \* how many transition actions the client passes per call

vars == <<machine, client, _history, active_states, _state, _states, state_to_return_to,
          states_to_return_to, _event, _tick_event, ticker, todo, err, starter,
          stopper, stopped_event, before, calls, actions>>

-----------------------------------------------------------------------------
(* Bounds of the exploration.                                              *)

\* most transition actions a client passes to one _transition_to call
MaxActions == 2
\* most operations a client performs on the events of an unstarted machine
MaxOps == 4

\* how many times start() is called on one machine
MaxStarts == 2

-----------------------------------------------------------------------------
(* The state trees of the client machines.                                 *)

None == "None"

\* the machines of the tests
TestMachines == {"M4", "M5"}

\* "M6" nests a composite in a composite: the machine holds the composite
\* M6_C and the state M6_E, M6_C holds the composite M6_D, and M6_D holds the
\* states M6_S1 and M6_S2
\* "M7" puts a plain composite in a region: the machine holds the concurrent
\* composite M7_C and the state M7_E; the first region of M7_C has the states
\* M7_S1 and M7_S2, the second the plain composite M7_D, which holds the
\* state M7_D1
Machines == TestMachines \cup {"M6", "M7"}

Plain == {"M4", "M4_C1", "M4_C2", "M5", "M5_C1", "M6", "M6_C", "M6_D",
          "M7", "M7_D"}

Concurrent == {"M5_C2", "M7_C"}

Composites == Plain \cup Concurrent

Simple == {"M4_S1", "M4_S2", "M4_S3", "M4_S4",
           "M5_S1", "M5_S2", "M5_S3", "M5_S4", "M5_S5", "M5_S6",
           "M6_E", "M6_S1", "M6_S2",
           "M7_E", "M7_S1", "M7_S2", "M7_D1"}

Parent ==
    [s \in (Composites \cup Simple) \ Machines |->
        CASE s \in {"M4_C1", "M4_C2"} -> "M4"
          [] s \in {"M4_S1", "M4_S2"} -> "M4_C1"
          [] s \in {"M4_S3", "M4_S4"} -> "M4_C2"
          [] s \in {"M5_C1", "M5_C2"} -> "M5"
          [] s \in {"M5_S1", "M5_S2"} -> "M5_C1"
          [] s \in {"M6_C", "M6_E"} -> "M6"
          [] s = "M6_D" -> "M6_C"
          [] s \in {"M6_S1", "M6_S2"} -> "M6_D"
          [] s \in {"M7_C", "M7_E"} -> "M7"
          [] s \in {"M7_S1", "M7_S2", "M7_D"} -> "M7_C"
          [] s = "M7_D1" -> "M7_D"
          [] OTHER -> "M5_C2"]

concurrent_state_count == 2

Regions == 1..concurrent_state_count

Initial(c) == c \o "_initial"

Final(c) == c \o "_final"

History(c) == c \o "_history"

InitialStates == {Initial(c) : c \in Composites}

FinalStates == {Final(c) : c \in Composites}

HistoryStates == {History(c) : c \in Composites}

PseudoStates == InitialStates \cup FinalStates \cup HistoryStates

States == Composites \cup Simple \cup PseudoStates

SuperState(s) ==
    IF s \in PseudoStates
    THEN CHOOSE c \in Composites : s \in {Initial(c), Final(c), History(c)}
    ELSE IF s \in Machines THEN None ELSE Parent[s]

RECURSIVE StateMachineOf(_)
StateMachineOf(s) == IF s \in Machines THEN s ELSE StateMachineOf(SuperState(s))

Events == {"event_1", "event_2", "event_3"}

EventsOf(m) == IF m \in {"M4", "M6", "M7"} THEN {"event_1", "event_2"} ELSE Events

-----------------------------------------------------------------------------
(* The transition tables (_transitions_per_state).  A transition function  *)
(* is a sequence of statements; a statement is an if/elif chain of rules;  *)
(* a rule is a guard and the _transition_to (or _handle_history) call it   *)
(* makes.  Regions are numbered from 0 as in the code.                     *)

Rule(g, a, tgt, r) ==
    [guard |-> g, arg |-> a, target |-> tgt, region |-> r, indexed |-> TRUE,
     hist |-> FALSE]

\* a _transition_to call that passes the new state only
NoIndex(g, a, tgt) ==
    [guard |-> g, arg |-> a, target |-> tgt, region |-> concurrent_state_count,
     indexed |-> FALSE, hist |-> FALSE]

Hist(r) ==
    [guard |-> "always", arg |-> None, target |-> None, region |-> r,
     indexed |-> TRUE, hist |-> TRUE]

\* ConcurrentCompositeState._transition_to: "state_index: int = 0"
StateIndex(r) == IF r.indexed THEN r.region ELSE 0

Goto(tgt) == << <<Rule("always", None, tgt, 0)>> >>

OnEvent(e, tgt, r) == << <<Rule("event", e, tgt, r)>> >>

\* "if self._event(): await self._handle_history(r)"
HistOnEvent(e, r) == << <<[Hist(r) EXCEPT !.guard = "event", !.arg = e]>> >>

\* the Event a guard of the second machine polls: a client may pass the
\* same Event object to several transition functions
Shared(e) == IF client = "shared_event" THEN "event_1" ELSE e

TransitionFns ==
    [s \in States |->
        CASE s = Initial("M4") -> Goto("M4_C1")
          [] s = "M4_C1" -> << <<Rule("final", "M4_C1", "M4_C2", 0),
                                 Rule("event", "event_2", "M4_C2", 0)>> >>
          [] s = "M4_C2" -> << <<Rule("final", "M4_C2", "M4_C1", 0),
                                 Rule("event", "event_2", "M4_C1", 0)>> >>
          [] s = Initial("M4_C1") -> Goto("M4_S1")
          [] s = "M4_S1" -> OnEvent("event_1", "M4_S2", 0)
          [] s = "M4_S2" -> OnEvent("event_1", Final("M4_C1"), 0)
          [] s = Initial("M4_C2") -> Goto("M4_S3")
          [] s = History("M4_C2") -> << <<Hist(0)>> >>
          [] s = "M4_S3" ->
                 OnEvent("event_1", IF client = "self_transition" THEN "M4_S3"
                                    ELSE "M4_S4", 0)
          [] s = "M4_S4" ->
                 IF client = "history_call" THEN HistOnEvent("event_1", 0)
                 ELSE OnEvent("event_1", Final("M4_C2"), 0)
          [] s = Initial("M5") -> Goto("M5_C1")
          [] s = "M5_C1" -> << <<Rule("final", "M5_C1", "M5_C2", 0),
                                 Rule("event", "event_2", "M5_C2", 0)>> >>
          [] s = "M5_C2" -> << <<Rule("final", "M5_C2", "M5_C1", 0)>>,
                               <<Rule("event", Shared("event_2"),
                                      IF client = "self_transition" THEN "M5_C2"
                                      ELSE "M5_C1", 0)>> >>
          [] s = Initial("M5_C1") ->
                 IF client = "no_initial" THEN << >> ELSE Goto("M5_S1")
          [] s = History("M5_C1") -> << <<Hist(0)>> >>
          [] s = "M5_S1" -> OnEvent("event_1", "M5_S2", 0)
          [] s = "M5_S2" -> OnEvent("event_1", Final("M5_C1"), 0)
          [] s = Initial("M5_C2") ->
                 IF client = "no_region_index"
                 THEN << <<NoIndex("always", None, "M5_S3")>>,
                         <<Rule("always", None, "M5_S5", 1)>> >>
                 ELSE IF client = "one_region"
                 THEN << <<Rule("always", None, "M5_S3", 0)>> >>
                 ELSE << <<Rule("always", None, "M5_S3", 0)>>,
                         <<Rule("always", None, "M5_S5", 1)>> >>
          [] s = History("M5_C2") ->
                 IF client = "one_region" THEN << <<Hist(0)>> >>
                 ELSE << <<Hist(0)>>, <<Hist(1)>> >>
          [] s = "M5_S3" -> OnEvent("event_1", "M5_S4", 0)
          [] s = "M5_S4" ->
                 IF client = "history_call" THEN HistOnEvent("event_1", 0)
                 ELSE OnEvent("event_1", Final("M5_C2"), 0)
          [] s = "M5_S5" -> OnEvent(Shared("event_3"), "M5_S6", 1)
          [] s = "M5_S6" -> OnEvent(Shared("event_3"), Final("M5_C2"), 1)
          [] s = Initial("M6") -> Goto("M6_C")
          [] s = "M6_C" -> OnEvent("event_2", "M6_E", 0)
          [] s = "M6_E" -> OnEvent("event_2", "M6_C", 0)
          [] s = Initial("M6_C") -> Goto("M6_D")
          [] s = History("M6_C") -> << <<Hist(0)>> >>
          [] s = Initial("M6_D") -> Goto("M6_S1")
          [] s = History("M6_D") -> << <<Hist(0)>> >>
          [] s = "M6_S1" -> OnEvent("event_1", "M6_S2", 0)
          [] s = "M6_S2" -> OnEvent("event_1", "M6_S1", 0)
          [] s = Initial("M7") -> Goto("M7_C")
          [] s = "M7_C" -> OnEvent("event_2", "M7_E", 0)
          [] s = "M7_E" -> OnEvent("event_2", "M7_C", 0)
          [] s = Initial("M7_C") -> << <<Rule("always", None, "M7_S1", 0)>>,
                                       <<Rule("always", None, "M7_D", 1)>> >>
          [] s = "M7_S1" -> OnEvent("event_1", "M7_S2", 0)
          [] s = "M7_S2" -> OnEvent("event_1", "M7_S1", 0)
          [] s = Initial("M7_D") -> Goto("M7_D1")
          [] OTHER -> << >>]

\* _transitions_per_state.get(state): None when the table has no entry
HasTransitionFn(s) == TransitionFns[s] # << >>

-----------------------------------------------------------------------------
(* Coroutines and their operations.                                        *)

Ticker == 0

Coroutines == {Ticker} \cup Regions

Op(o, s, c, t, i, k) ==
    [op |-> o, s |-> s, c |-> c, t |-> t, i |-> i, k |-> k, m |-> {}]

SetOp(o, i, k, m) ==
    [op |-> o, s |-> None, c |-> None, t |-> None, i |-> i, k |-> k, m |-> m]

\* the operations that await something that may suspend
AwaitOps == {"do_actions", "exit_actions", "action", "entry_actions",
             "sleep", "gather", "wait", "task"}

\* the operation a coroutine executes next
NextOp(t) == IF todo[t] = << >> THEN "done" ELSE Head(todo[t]).op

AtAwait(t) == NextOp(t) \in AwaitOps \cup {"done"}

\* asyncio runs one coroutine at a time, up to its next await
MayRun(t) == todo[t] # << >> /\ \A u \in Coroutines \ {t} : AtAwait(u)

Quiescent == \A u \in Coroutines : AtAwait(u)

Continue(t, ops) == todo' = [todo EXCEPT ![t] = ops \o Tail(@)]

\* a faulty ticker: the exception is caught where it is raised and the
\* coroutine goes on
Raise_swallowed(t, e) ==
    /\ UNCHANGED <<ticker, err>>
    /\ todo' = [todo EXCEPT ![t] = Tail(@)]

\* an exception leaves the coroutine; it ends the ticker task, unless an
\* earlier exception already has
Raise(t, e) ==
    /\ ticker' = "failed"
    /\ err' = IF ticker = "failed" THEN err ELSE e
    /\ todo' = [todo EXCEPT ![t] = << >>, ![Ticker] = << >>]

Item(s) == [frame |-> FALSE, members |-> {s}]

Frame(m) == [frame |-> TRUE, members |-> m]

Top == active_states[Len(active_states)]

Pop == SubSeq(active_states, 1, Len(active_states) - 1)

\* the regions of concurrent composite c: the indices of its _states list
RegionsOf(c) == DOMAIN _states[c]

\* a faulty is_at_final_state: a concurrent composite is never final
is_at_final_state_plain_only(c) ==
    IF c \in Concurrent THEN FALSE ELSE _state[c] = Final(c)

\* a faulty is_at_final_state: one final region is enough
is_at_final_state_any(c) ==
    IF c \in Concurrent
    THEN \E i \in RegionsOf(c) : _states[c][i] = Final(c)
    ELSE _state[c] = Final(c)

\* CompositeState.is_at_final_state, ConcurrentCompositeState.is_at_final_state
is_at_final_state(c) ==
    IF c \in Concurrent
    THEN \A i \in RegionsOf(c) : _states[c][i] = Final(c)
    ELSE _state[c] = Final(c)

-----------------------------------------------------------------------------
\* the concurrent_state_count the client passes to the constructor of
\* concurrent composite c
StateCount(c) == IF client = "one_region" THEN 1 ELSE concurrent_state_count

\* the objects as their constructors leave them
Constructed ==
    /\ active_states = << >>
    /\ _state = [c \in Plain |-> Initial(c)]
    /\ _states = [c \in Concurrent |-> [i \in 1..StateCount(c) |-> Initial(c)]]
    /\ state_to_return_to = [c \in Plain |-> None]
    /\ states_to_return_to = [c \in Concurrent |-> [i \in 1..StateCount(c) |-> None]]
    /\ _event = [e \in Events |-> FALSE]
    /\ _tick_event = FALSE
    /\ ticker = "unstarted"
    /\ todo = [t \in Coroutines |-> << >>]
    /\ err = None
    /\ starter = "idle"
    /\ stopper = "idle"
    /\ stopped_event = FALSE
    /\ before = [t \in Coroutines |-> << >>]
    /\ calls = << >>

\* the machines of the tests; the concurrent composite of the second with or
\* without history
Init ==
    /\ machine \in TestMachines
    /\ client = "tests"
    /\ _history \in {h \in [Composites -> BOOLEAN] :
                        /\ h["M4_C2"]
                        /\ \A c \in Composites \ {"M4_C2", "M5_C2"} : ~h[c]}
    /\ (machine = "M4" => ~_history["M5_C2"])
    /\ actions \in 0..MaxActions
    /\ Constructed

\* the second machine with has_history=True passed for its plain composite,
\* as the first machine passes it for its second composite
HistoryInit ==
    /\ machine = "M5"
    /\ client = "tests"
    /\ _history = [c \in Composites |-> c \in {"M4_C2", "M5_C1"}]
    /\ actions \in 0..MaxActions
    /\ Constructed

-----------------------------------------------------------------------------
(* Events (class Event).                                                   *)

\* Event.set on the flag: asyncio.Event.set
EventSet(flag) == TRUE

\* a faulty Event.__call__: the flag is left as it is
EventCall_keep(flag) == [result |-> flag, flag |-> flag]

\* Event.__call__ on the flag: the value returned and the flag afterwards
EventCall(flag) == [result |-> flag, flag |-> FALSE]

data == <<active_states, _state, _states, state_to_return_to, states_to_return_to>>

construction == <<machine, client, _history, actions>>

stopping == <<stopper, stopped_event>>

\* the client's calls of start and stop_ticker
calling == <<starter, stopper, stopped_event>>

\* what no step of the machine itself changes but the beginning and the end
\* of a _transition_to call
aside == <<starter, stopper, stopped_event, before>>

\* StateMachine.trigger_tick, up to its asyncio.sleep(0)
trigger_tick ==
    /\ Quiescent
    /\ _tick_event' = TRUE
    /\ UNCHANGED <<construction, aside, data, _event, ticker, todo, err, calls>>

\* a faulty Event.set: the Event objects share one asyncio.Event
set_shared(e) ==
    /\ Quiescent
    /\ e \in EventsOf(machine)
    /\ _event' = [f \in Events |-> f \in EventsOf(machine) \/ _event[f]]
    /\ _tick_event' = TRUE
    /\ UNCHANGED <<construction, aside, data, ticker, todo, err, calls>>

\* Event.set, called by a client task
set(e) ==
    /\ Quiescent
    /\ e \in EventsOf(machine)
    /\ _event' = [_event EXCEPT ![e] = EventSet(@)]
    /\ _tick_event' = TRUE
    /\ UNCHANGED <<construction, aside, data, ticker, todo, err, calls>>

-----------------------------------------------------------------------------
(* The machine driver (class StateMachine).                                *)

\* State.activate
activate(s) == Append(active_states, Item(s))

\* StateMachine.start: push the root, create the ticker task, and sleep
start ==
    /\ ticker = "unstarted"
    /\ active_states' = activate(machine)
    /\ ticker' = "alive"
    /\ todo' = [todo EXCEPT ![Ticker] =
                    <<Op("tick", None, None, None, 0, 0),
                      Op("await_tick", None, None, None, 0, 0)>>]
    /\ starter' = "sleeping"
    /\ UNCHANGED <<construction, stopping, before, _state, _states, state_to_return_to,
                   states_to_return_to, _event, _tick_event, err, calls>>

\* StateMachine.stop_ticker is called: "self.ticker.cancel()".  A ticker that
\* is not done gets the CancelledError at the await it is suspended in, before
\* any other code of the machine runs, and ends ("except CancelledError"); a
\* gather it awaits cancels its children.  A ticker that is done is left as
\* it is, and so are the tasks of a gather that has failed.  The polling loop
\* of stop_ticker begins
stop_ticker ==
    /\ ticker \in {"alive", "failed"}
    /\ stopper = "idle"
    /\ Quiescent
    /\ IF ticker = "alive"
       THEN /\ ticker' = "cancelled"
            /\ todo' = [t \in Coroutines |-> << >>]
            /\ before' = [t \in Coroutines |-> << >>]
            /\ calls' = << >>
       ELSE UNCHANGED <<ticker, todo, before, calls>>
    /\ stopper' = "polling"
    /\ UNCHANGED <<construction, data, _event, _tick_event, err, starter, stopped_event>>

\* a faulty stop_ticker: the polling loop waits for a cancelled ticker
stop_ticker_returns_cancelled_only ==
    /\ stopper = "polling"
    /\ ticker = "cancelled"
    /\ stopper' = "returned"
    /\ stopped_event' = TRUE
    /\ UNCHANGED <<construction, data, _event, _tick_event, ticker, todo, err, starter, before, calls>>

\* stop_ticker: "while not self.ticker.done()" ends, stopped_event is set
stop_ticker_returns ==
    /\ stopper = "polling"
    /\ ticker \in {"cancelled", "failed"}
    /\ stopper' = "returned"
    /\ stopped_event' = TRUE
    /\ UNCHANGED <<construction, data, _event, _tick_event, ticker, todo, err, starter, before, calls>>

\* the current children of composite c, one per region
Currents(c) == IF c \in Concurrent THEN _states[c] ELSE <<_state[c]>>

\* the composites every current child of which is the Final pseudo-state
AllFinal ==
    {c \in Composites : \A i \in DOMAIN Currents(c) : Currents(c)[i] = Final(c)}

\* ticker.tick: a pass over active_states begins; the Mock is reset, and the
\* record of the pass starts with the composites that are final as it begins
tick(t) ==
    /\ MayRun(t)
    /\ Head(todo[t]).op = "tick"
    /\ calls' = <<SetOp("tick", 0, 0, AllFinal)>>
    /\ Continue(t, <<Op("for", None, None, None, 1, 0)>>)
    /\ UNCHANGED <<construction, aside, data, _event, _tick_event, ticker, err>>

\* a faulty CompositeState.do: the transitions come before the do_actions
DoOps_transitions_first(s) ==
    IF s \in Composites
    THEN <<Op("transitions", s, s, None, 0, 0), Op("do_actions", s, None, None, 0, 0)>>
    ELSE <<Op("do_actions", s, None, None, 0, 0)>>

\* a faulty CompositeState.do: the transitions are not evaluated
DoOps_actions_only(s) == <<Op("do_actions", s, None, None, 0, 0)>>

\* State.do and CompositeState.do / ConcurrentCompositeState.do
DoOps(s) ==
    IF s \in Composites
    THEN <<Op("do_actions", s, None, None, 0, 0), Op("transitions", s, s, None, 0, 0)>>
    ELSE <<Op("do_actions", s, None, None, 0, 0)>>

\* a faulty ticker.tick: the loop ends one item early
for_item_short(t) ==
    LET h == Head(todo[t]) IN
    /\ MayRun(t)
    /\ h.op = "for"
    /\ IF h.i >= Len(active_states) /\ h.i > 1
       THEN Continue(t, << >>)
       ELSE LET item == active_states[h.i] IN
            IF item.frame
            THEN Continue(t, <<SetOp("for_state", h.i, 0, item.members)>>)
            ELSE Continue(t, DoOps(CHOOSE s \in item.members : TRUE)
                             \o <<Op("for", None, None, None, h.i + 1, 0)>>)
    /\ UNCHANGED <<construction, aside, data, _event, _tick_event, ticker, err, calls>>

\* ticker.tick: "for item in self.active_states", a list iterated by index
for_item(t) ==
    LET h == Head(todo[t]) IN
    /\ MayRun(t)
    /\ h.op = "for"
    /\ IF h.i > Len(active_states)
       THEN Continue(t, << >>)
       ELSE LET item == active_states[h.i] IN
            IF item.frame
            THEN Continue(t, <<SetOp("for_state", h.i, 0, item.members)>>)
            ELSE Continue(t, DoOps(CHOOSE s \in item.members : TRUE)
                             \o <<Op("for", None, None, None, h.i + 1, 0)>>)
    /\ UNCHANGED <<construction, aside, data, _event, _tick_event, ticker, err, calls>>

\* ticker.tick: "for state in item", a set iterated in no particular order
for_state(t) ==
    LET h == Head(todo[t]) IN
    /\ MayRun(t)
    /\ h.op = "for_state"
    /\ IF h.m = {}
       THEN Continue(t, <<Op("for", None, None, None, h.i + 1, 0)>>)
       ELSE \E s \in h.m :
                Continue(t, DoOps(s) \o <<SetOp("for_state", h.i, 0, h.m \ {s})>>)
    /\ UNCHANGED <<construction, aside, data, _event, _tick_event, ticker, err, calls>>

\* a faulty ticker: the event is cleared before it is awaited
await_tick_clear_first(t) ==
    /\ MayRun(t)
    /\ Head(todo[t]).op = "await_tick"
    /\ calls' = << >>
    /\ _tick_event' = FALSE
    /\ Continue(t, <<Op("wait", None, None, None, 0, 0)>>)
    /\ UNCHANGED <<construction, aside, data, _event, ticker, err>>

\* ticker: "await self._tick_event.wait()" at the end of a pass.  With the
\* event set it returns at once, the event is cleared and the next pass
\* begins; otherwise the ticker suspends and the Mock is reset
await_tick(t) ==
    /\ MayRun(t)
    /\ Head(todo[t]).op = "await_tick"
    /\ IF _tick_event
       THEN /\ _tick_event' = FALSE
            /\ Continue(t, <<Op("tick", None, None, None, 0, 0),
                             Op("await_tick", None, None, None, 0, 0)>>)
            /\ UNCHANGED calls
       ELSE /\ calls' = << >>
            /\ Continue(t, <<Op("wait", None, None, None, 0, 0)>>)
            /\ UNCHANGED _tick_event
    /\ UNCHANGED <<construction, aside, data, _event, ticker, err>>

\* ticker: the suspended asyncio.Event.wait returns once the event is set;
\* then "self._tick_event.clear()" and the next pass
wait(t) ==
    /\ MayRun(t)
    /\ Head(todo[t]).op = "wait"
    /\ _tick_event
    /\ _tick_event' = FALSE
    /\ Continue(t, <<Op("tick", None, None, None, 0, 0),
                     Op("await_tick", None, None, None, 0, 0)>>)
    /\ UNCHANGED <<construction, aside, data, _event, ticker, err, calls>>

\* a user hook runs: entry_actions, do_actions, exit_actions or a transition
\* action; the Mock records the call
hook(t) ==
    LET h == Head(todo[t]) IN
    /\ MayRun(t)
    /\ h.op \in {"do_actions", "exit_actions", "action", "entry_actions"}
    /\ calls' = Append(calls, h)
    /\ Continue(t, << >>)
    /\ UNCHANGED <<construction, aside, data, _event, _tick_event, ticker, err>>

\* StateMachine.trigger_tick: the coroutine resumes after asyncio.sleep(0)
sleep(t) ==
    /\ MayRun(t)
    /\ Head(todo[t]).op = "sleep"
    /\ Continue(t, << >>)
    /\ UNCHANGED <<construction, aside, data, _event, _tick_event, ticker, err, calls>>

-----------------------------------------------------------------------------
(* Composite states: evaluating the transition table.                      *)

\* a faulty ConcurrentCompositeState._transitions: one function per region
\* whatever the current children are
RegionKeys_per_region(c) == _states[c]

\* the transition functions ConcurrentCompositeState._transitions looks up:
\* one per region, or the single one of the initial / history pseudo-state
RegionKeys(c) ==
    IF _states[c][1] = Initial(c) \/ (_history[c] /\ _states[c][1] = History(c))
    THEN <<_states[c][1]>>
    ELSE _states[c]

\* CompositeState._transitions, and ConcurrentCompositeState._transitions up
\* to its asyncio.gather
transitions(t) ==
    LET h == Head(todo[t])
        c == h.c
        fn(s) == Op("fn", s, c, None, 0, 0)
    IN
    /\ MayRun(t)
    /\ h.op = "transitions"
    /\ IF c \in Concurrent
       THEN LET keys == RegionKeys(c)
                launched == {j \in 1..Len(keys) : HasTransitionFn(keys[j])}
            IN
            /\ todo' = [u \in Coroutines |->
                          IF u = t
                          THEN (IF launched = {} THEN << >>
                                ELSE <<Op("gather", None, c, None, 0, 0)>>) \o Tail(todo[t])
                          ELSE IF u \in launched
                               THEN <<Op("task", keys[u], c, None, 0, 0)>>
                               ELSE todo[u]]
            /\ calls' = calls
       ELSE IF HasTransitionFn(_state[c])
            THEN /\ Continue(t, <<Op("clause", _state[c], c, None, 1, 0)>>)
                 /\ calls' = Append(calls, fn(_state[c]))
            ELSE /\ Continue(t, << >>)
                 /\ calls' = calls
    /\ UNCHANGED <<construction, aside, data, _event, _tick_event, ticker, err>>

\* a task created by asyncio.gather starts: tasks start in creation order
task(t) ==
    LET h == Head(todo[t]) IN
    /\ MayRun(t)
    /\ h.op = "task"
    /\ \A u \in Regions : u < t => NextOp(u) # "task"
    /\ Continue(t, <<Op("clause", h.s, h.c, None, 1, 0)>>)
    /\ calls' = Append(calls, Op("fn", h.s, h.c, None, 0, 0))
    /\ UNCHANGED <<construction, aside, data, _event, _tick_event, ticker, err>>

\* asyncio.gather returns once every task is done
gather(t) ==
    /\ MayRun(t)
    /\ Head(todo[t]).op = "gather"
    /\ \A u \in Regions : NextOp(u) = "done"
    /\ Continue(t, << >>)
    /\ UNCHANGED <<construction, aside, data, _event, _tick_event, ticker, err, calls>>

\* the guard of a rule, as the transition functions of the tests evaluate it
Holds(r) ==
    CASE r.guard = "event" -> EventCall(_event[r.arg]).result
      [] r.guard = "final" -> is_at_final_state(r.arg)
      [] OTHER -> TRUE

\* a faulty transition function: its first rule fires whatever its guard says
Fired_first(cl) == 1

\* the rule of an if/elif chain that fires: the first whose guard holds (0: none)
Fired(cl) ==
    IF \E j \in 1..Len(cl) : Holds(cl[j])
    THEN CHOOSE j \in 1..Len(cl) : Holds(cl[j]) /\ \A i \in 1..(j - 1) : ~Holds(cl[i])
    ELSE 0

\* the rules of the chain whose guard is evaluated
Evaluated(cl) == IF Fired(cl) = 0 THEN 1..Len(cl) ELSE 1..Fired(cl)

Polled(cl) == {cl[j].arg : j \in {i \in Evaluated(cl) : cl[i].guard = "event"}}

RECURSIVE PollsFrom(_, _, _, _)
PollsFrom(cl, c, j, last) ==
    IF j > last THEN << >>
    ELSE (IF cl[j].guard = "event"
          THEN <<Op("poll", cl[j].arg, c, None,
                    IF Holds(cl[j]) THEN 1 ELSE 0, 0)>>
          ELSE << >>) \o PollsFrom(cl, c, j + 1, last)

\* what the Mock records of the polls: the event and the result
Polls(cl, c) == PollsFrom(cl, c, 1, IF Fired(cl) = 0 THEN Len(cl) ELSE Fired(cl))

\* the current child a _transition_to of composite c, region r, leaves
Current(c, r) == IF c \in Concurrent THEN _states[c][r + 1] ELSE _state[c]

\* the remembered state _handle_history returns to
Remembered(c, r) ==
    IF c \in Concurrent THEN states_to_return_to[c][r + 1] ELSE state_to_return_to[c]

\* a faulty _handle_history: nothing is asserted
HistoryAssertions_none(c, r) == TRUE

\* the assertions of _handle_history: the composite has a history
\* pseudo-state and it remembers a state
HistoryAssertions(c, r) == _history[c] /\ Remembered(c, r) # None

\* a faulty State.transition: the new state is activated before its entry
TransitionOps_activate_first(c, r, self, new_state, k, hist) ==
    <<Op("exit", self, c, new_state, r, k)>>
    \o [j \in 1..k |-> Op("action", self, c, new_state, j, k)]
    \o <<Op("activate", self, c, new_state, r, k)>>
    \o (IF new_state \in PseudoStates THEN << >>
        ELSE <<Op("entry_actions", new_state, c, self, r, k)>>)
    \o <<Op("assign", self, c, new_state, r, k)>>
    \o (IF hist THEN <<Op("clear_history", None, c, None, r, 0)>> ELSE << >>)

\* a faulty State.transition: the entry of the new state before the actions
TransitionOps_entry_first(c, r, self, new_state, k, hist) ==
    <<Op("exit", self, c, new_state, r, k)>>
    \o (IF new_state \in PseudoStates THEN << >>
        ELSE <<Op("entry_actions", new_state, c, self, r, k)>>)
    \o [j \in 1..k |-> Op("action", self, c, new_state, j, k)]
    \o <<Op("activate", self, c, new_state, r, k),
         Op("assign", self, c, new_state, r, k)>>
    \o (IF hist THEN <<Op("clear_history", None, c, None, r, 0)>> ELSE << >>)

\* a faulty State.transition: a transition of a state to itself is an
\* internal one, with neither exit nor entry
TransitionOps_internal(c, r, self, new_state, k, hist) ==
    (IF self = new_state THEN << >> ELSE <<Op("exit", self, c, new_state, r, k)>>)
    \o [j \in 1..k |-> Op("action", self, c, new_state, j, k)]
    \o (IF new_state \in PseudoStates \/ self = new_state THEN << >>
        ELSE <<Op("entry_actions", new_state, c, self, r, k)>>)
    \o (IF self = new_state THEN << >>
        ELSE <<Op("activate", self, c, new_state, r, k)>>)
    \o <<Op("assign", self, c, new_state, r, k)>>
    \o (IF hist THEN <<Op("clear_history", None, c, None, r, 0)>> ELSE << >>)

\* State.transition followed by the assignment in _transition_to, and the
\* clearing of the remembered state in _handle_history
TransitionOps(c, r, self, new_state, k, hist) ==
    <<Op("exit", self, c, new_state, r, k)>>
    \o [j \in 1..k |-> Op("action", self, c, new_state, j, k)]
    \o (IF new_state \in PseudoStates THEN << >>
        ELSE <<Op("entry_actions", new_state, c, self, r, k)>>)
    \o <<Op("activate", self, c, new_state, r, k),
         Op("assign", self, c, new_state, r, k)>>
    \o (IF hist THEN <<Op("clear_history", None, c, None, r, 0)>> ELSE << >>)

\* one statement of a transition function: its guards are evaluated in order
\* and the first that holds makes its _transition_to / _handle_history call
clause(t) ==
    LET h == Head(todo[t])
        c == h.c
        fn == TransitionFns[h.s]
    IN
    /\ MayRun(t)
    /\ h.op = "clause"
    /\ IF h.i > Len(fn)
       THEN /\ Continue(t, << >>)
            /\ UNCHANGED <<_event, calls, ticker, err, before>>
       ELSE LET cl == fn[h.i]
                next == <<Op("clause", h.s, c, None, h.i + 1, 0)>>
                r == cl[Fired(cl)]
            IN
            /\ _event' = [e \in Events |->
                             IF e \in Polled(cl) THEN EventCall(_event[e]).flag
                             ELSE _event[e]]
            /\ calls' = calls \o Polls(cl, c)
            /\ IF Fired(cl) = 0
               THEN /\ Continue(t, next)
                    /\ UNCHANGED <<ticker, err, before>>
               ELSE IF r.hist /\ ~HistoryAssertions(c, StateIndex(r))
               THEN /\ Raise(t, "AssertionError")
                    /\ UNCHANGED before
               ELSE /\ before' = [before EXCEPT ![t] = active_states]
                    /\ Continue(t, TransitionOps(
                            c, StateIndex(r), Current(c, StateIndex(r)),
                            IF r.hist THEN Remembered(c, StateIndex(r)) ELSE r.target,
                            actions, r.hist) \o next)
                    /\ UNCHANGED <<ticker, err>>
    /\ UNCHANGED <<construction, calling, data, _tick_event>>

-----------------------------------------------------------------------------
(* States: exit, entry and the active-state stack.                         *)

\* a faulty composite exit: the composite's own State.exit comes first
ExitOps_parent_first(s) ==
    LET own == <<Op("exit_actions", s, None, None, 0, 0),
                 Op("deactivate", s, None, None, 0, 0)>>
    IN
    IF s \in PseudoStates THEN << >>
    ELSE IF s \in Concurrent
    THEN own \o [i \in RegionsOf(s) |-> Op("exit_region", None, s, None, i, 0)]
         \o <<Op("remember", None, s, None, 0, 0)>>
    ELSE IF s \in Plain
    THEN own \o <<Op("exit", _state[s], s, None, 0, 0),
                  Op("remember", None, s, None, 0, 0)>>
    ELSE own

\* State.exit, CompositeState.exit and ConcurrentCompositeState.exit: what
\* the call of exit() on state s consists of
ExitOps(s) ==
    LET own == <<Op("exit_actions", s, None, None, 0, 0),
                 Op("deactivate", s, None, None, 0, 0)>>
    IN
    IF s \in PseudoStates THEN << >>
    ELSE IF s \in Concurrent
    THEN [i \in RegionsOf(s) |-> Op("exit_region", None, s, None, i, 0)]
         \o <<Op("remember", None, s, None, 0, 0)>> \o own
    ELSE IF s \in Plain
    THEN <<Op("exit", _state[s], s, None, 0, 0),
           Op("remember", None, s, None, 0, 0)>> \o own
    ELSE own

exit(t) ==
    LET h == Head(todo[t]) IN
    /\ MayRun(t)
    /\ h.op = "exit"
    /\ Continue(t, ExitOps(h.s))
    /\ UNCHANGED <<construction, aside, data, _event, _tick_event, ticker, err, calls>>

\* ConcurrentCompositeState.exit: "for state in self._states: await state.exit()"
exit_region(t) ==
    LET h == Head(todo[t]) IN
    /\ MayRun(t)
    /\ h.op = "exit_region"
    /\ Continue(t, ExitOps(_states[h.c][h.i]))
    /\ UNCHANGED <<construction, aside, data, _event, _tick_event, ticker, err, calls>>

\* a faulty CompositeState.exit: the history pseudo-state always remembers the
\* first child
PlainExit_first(c) ==
    IF _history[c] /\ _state[c] # Final(c)
    THEN [state |-> History(c), to_return_to |-> TransitionFns[Initial(c)][1][1].target]
    ELSE [state |-> Initial(c), to_return_to |-> state_to_return_to[c]]

\* a faulty CompositeState.exit: a composite exited at Final stays at Final
PlainExit_no_reset(c) ==
    IF _history[c] /\ _state[c] # Final(c)
    THEN [state |-> History(c), to_return_to |-> _state[c]]
    ELSE [state |-> _state[c], to_return_to |-> state_to_return_to[c]]

\* CompositeState.exit: the current child after the exit, and the state the
\* history pseudo-state remembers
PlainExit(c) ==
    IF _history[c] /\ _state[c] # Final(c)
    THEN [state |-> History(c), to_return_to |-> _state[c]]
    ELSE [state |-> Initial(c), to_return_to |-> state_to_return_to[c]]

\* a faulty ConcurrentCompositeState.exit: a region at Final stays at Final
ConcurrentExit_final_stays(c) ==
    IF _history[c] /\ \E i \in RegionsOf(c) : _states[c][i] # Final(c)
    THEN [states |-> [i \in RegionsOf(c) |->
                         IF _states[c][i] = Final(c) THEN Final(c) ELSE History(c)],
          to_return_to |-> _states[c]]
    ELSE [states |-> [i \in RegionsOf(c) |-> Initial(c)],
          to_return_to |-> states_to_return_to[c]]

\* a faulty ConcurrentCompositeState.exit: a region at Final is not remembered
ConcurrentExit_not_final(c) ==
    IF _history[c] /\ \E i \in RegionsOf(c) : _states[c][i] # Final(c)
    THEN [states |-> [i \in RegionsOf(c) |-> History(c)],
          to_return_to |-> [i \in RegionsOf(c) |->
                               IF _states[c][i] = Final(c)
                               THEN states_to_return_to[c][i] ELSE _states[c][i]]]
    ELSE [states |-> [i \in RegionsOf(c) |-> Initial(c)],
          to_return_to |-> states_to_return_to[c]]

\* ConcurrentCompositeState.exit: the same for every region
ConcurrentExit(c) ==
    IF _history[c] /\ \E i \in RegionsOf(c) : _states[c][i] # Final(c)
    THEN [states |-> [i \in RegionsOf(c) |-> History(c)], to_return_to |-> _states[c]]
    ELSE [states |-> [i \in RegionsOf(c) |-> Initial(c)],
          to_return_to |-> states_to_return_to[c]]

\* the composite's exit() between the exit of its children and its own
\* State.exit
remember(t) ==
    LET h == Head(todo[t])
        c == h.c
    IN
    /\ MayRun(t)
    /\ h.op = "remember"
    /\ IF c \in Concurrent
       THEN /\ _states' = [_states EXCEPT ![c] = ConcurrentExit(c).states]
            /\ states_to_return_to' =
                   [states_to_return_to EXCEPT ![c] = ConcurrentExit(c).to_return_to]
            /\ UNCHANGED <<_state, state_to_return_to>>
       ELSE /\ _state' = [_state EXCEPT ![c] = PlainExit(c).state]
            /\ state_to_return_to' =
                   [state_to_return_to EXCEPT ![c] = PlainExit(c).to_return_to]
            /\ UNCHANGED <<_states, states_to_return_to>>
    /\ Continue(t, << >>)
    /\ UNCHANGED <<construction, aside, active_states, _event, _tick_event,
                   ticker, err, calls>>

\* a faulty State.exit: the position on the stack is not asserted
ExitAssertions_none(s) == TRUE

\* the assertions of State.exit on the stack position of state s
ExitAssertions(s) ==
    /\ SuperState(s) # None
    /\ active_states # << >>
    /\ IF SuperState(s) \in Concurrent
       THEN Top.frame /\ s \in Top.members
       ELSE Top = Item(s)

\* a faulty State.deactivate: the stack keeps the state
deactivate_state_keep(s) == active_states

\* State.deactivate
deactivate_state(s) == Pop

\* a faulty State.deactivate_concurrent_state: an empty set stays on the stack
deactivate_concurrent_state_no_pop(s) ==
    [active_states EXCEPT ![Len(active_states)] = Frame(Top.members \ {s})]

\* a faulty State.deactivate_concurrent_state: the whole set is popped
deactivate_concurrent_state_pop(s) == Pop

\* State.deactivate_concurrent_state
deactivate_concurrent_state(s) ==
    IF Top.members \ {s} = {}
    THEN Pop
    ELSE [active_states EXCEPT ![Len(active_states)] = Frame(Top.members \ {s})]

\* State.exit after exit_actions: the assertions, then the deactivation
deactivate(t) ==
    LET h == Head(todo[t]) IN
    /\ MayRun(t)
    /\ h.op = "deactivate"
    /\ IF ~ExitAssertions(h.s)
       THEN /\ Raise(t, "AssertionError")
            /\ UNCHANGED active_states
       ELSE /\ active_states' = IF SuperState(h.s) \in Concurrent
                                THEN deactivate_concurrent_state(h.s)
                                ELSE deactivate_state(h.s)
            /\ Continue(t, << >>)
            /\ UNCHANGED <<ticker, err>>
    /\ UNCHANGED <<construction, aside, _state, _states, state_to_return_to,
                   states_to_return_to, _event, _tick_event, calls>>

\* a faulty State.activate_concurrent_state: a set is pushed for every state
activate_concurrent_state_fresh(s) == Append(active_states, Frame({s}))

\* State.activate_concurrent_state
activate_concurrent_state(s) ==
    LET stack == IF Top.frame THEN active_states ELSE Append(active_states, Frame({}))
    IN  [stack EXCEPT ![Len(stack)] = Frame(@.members \cup {s})]

\* a faulty State.transition: every new state is activated as a plain one
Activated_plain(self, new_state) ==
    IF new_state \in FinalStates THEN active_states ELSE activate(new_state)

\* State.transition: which activation the new state gets
Activated(self, new_state) ==
    IF new_state \in FinalStates THEN active_states
    ELSE IF SuperState(self) \in Concurrent
    THEN activate_concurrent_state(new_state)
    ELSE activate(new_state)

\* State.transition after the entry: the new state is activated
activated(t) ==
    LET h == Head(todo[t]) IN
    /\ MayRun(t)
    /\ h.op = "activate"
    /\ active_states' = Activated(h.s, h.t)
    /\ Continue(t, << >>)
    /\ UNCHANGED <<construction, aside, _state, _states, state_to_return_to,
                   states_to_return_to, _event, _tick_event, ticker, err, calls>>

\* a faulty _transition_to: reaching a final state triggers no tick
TriggersTick_never(c, new_state) == FALSE

\* a faulty _transition_to: a region reaching a final state triggers a tick
TriggersTick_any(c, new_state) == new_state \in FinalStates

\* CompositeState._transition_to: whether the tick is triggered
TriggersTick(c, new_state) == c \in Plain /\ new_state \in FinalStates

\* a faulty _transition_to: the new state becomes the current child of the root
assign_root(t) ==
    LET h == Head(todo[t]) IN
    /\ MayRun(t)
    /\ h.op = "assign"
    /\ IF h.c \in Concurrent
       THEN /\ _states' = [_states EXCEPT ![h.c][h.i + 1] = h.t]
            /\ UNCHANGED _state
       ELSE /\ _state' = [_state EXCEPT ![StateMachineOf(h.c)] = h.t]
            /\ UNCHANGED _states
    /\ IF TriggersTick(h.c, h.t)
       THEN /\ _tick_event' = TRUE
            /\ Continue(t, <<Op("sleep", None, h.c, None, 0, 0)>>)
       ELSE /\ UNCHANGED _tick_event
            /\ Continue(t, << >>)
    /\ before' = [before EXCEPT ![t] = << >>]
    /\ UNCHANGED <<construction, calling, active_states, state_to_return_to,
                   states_to_return_to, _event, ticker, err, calls>>

\* _transition_to after State.transition returned: the current child is
\* assigned; a plain composite reaching a final state triggers a tick
assign(t) ==
    LET h == Head(todo[t]) IN
    /\ MayRun(t)
    /\ h.op = "assign"
    /\ IF h.c \in Concurrent
       THEN /\ _states' = [_states EXCEPT ![h.c][h.i + 1] = h.t]
            /\ UNCHANGED _state
       ELSE /\ _state' = [_state EXCEPT ![h.c] = h.t]
            /\ UNCHANGED _states
    /\ IF TriggersTick(h.c, h.t)
       THEN /\ _tick_event' = TRUE
            /\ Continue(t, <<Op("sleep", None, h.c, None, 0, 0)>>)
       ELSE /\ UNCHANGED _tick_event
            /\ Continue(t, << >>)
    /\ before' = [before EXCEPT ![t] = << >>]
    /\ UNCHANGED <<construction, calling, active_states, state_to_return_to,
                   states_to_return_to, _event, ticker, err, calls>>

\* _handle_history after _transition_to returned
clear_history(t) ==
    LET h == Head(todo[t]) IN
    /\ MayRun(t)
    /\ h.op = "clear_history"
    /\ IF h.c \in Concurrent
       THEN /\ states_to_return_to' = [states_to_return_to EXCEPT ![h.c][h.i + 1] = None]
            /\ UNCHANGED state_to_return_to
       ELSE /\ state_to_return_to' = [state_to_return_to EXCEPT ![h.c] = None]
            /\ UNCHANGED states_to_return_to
    /\ Continue(t, << >>)
    /\ UNCHANGED <<construction, aside, active_states, _state, _states, _event,
                   _tick_event, ticker, err, calls>>

-----------------------------------------------------------------------------
Next ==
    \/ start
    \/ trigger_tick
    \/ \E e \in Events : set(e)
    \/ stop_ticker
    \/ stop_ticker_returns
    \/ \E t \in Coroutines : tick(t)
    \/ \E t \in Coroutines : for_item(t)
    \/ \E t \in Coroutines : for_state(t)
    \/ \E t \in Coroutines : await_tick(t)
    \/ \E t \in Coroutines : wait(t)
    \/ \E t \in Coroutines : hook(t)
    \/ \E t \in Coroutines : sleep(t)
    \/ \E t \in Coroutines : transitions(t)
    \/ \E t \in Coroutines : task(t)
    \/ \E t \in Coroutines : gather(t)
    \/ \E t \in Coroutines : clause(t)
    \/ \E t \in Coroutines : exit(t)
    \/ \E t \in Coroutines : exit_region(t)
    \/ \E t \in Coroutines : remember(t)
    \/ \E t \in Coroutines : deactivate(t)
    \/ \E t \in Coroutines : activated(t)
    \/ \E t \in Coroutines : assign(t)
    \/ \E t \in Coroutines : clear_history(t)

Spec == Init /\ [][Next]_vars

HistorySpec == HistoryInit /\ [][Next]_vars

-----------------------------------------------------------------------------
(* Clients whose hooks may fail.                                           *)

\* a user hook (entry_actions, do_actions, exit_actions) or a transition
\* action raises
raises(t) ==
    /\ MayRun(t)
    /\ Head(todo[t]).op \in {"do_actions", "exit_actions", "action", "entry_actions"}
    /\ Raise(t, "Exception")
    /\ UNCHANGED <<construction, aside, data, _event, _tick_event, calls>>

FailNext ==
    \/ Next
    \/ \E t \in Coroutines : raises(t)

\* the machine on which a stack assertion can fail, with hooks that may fail
FailSpec == HistoryInit /\ [][FailNext]_vars

-----------------------------------------------------------------------------
(* Vocabulary of the properties.                                           *)

\* the ticker is suspended on the tick event
Waiting == ticker = "alive" /\ NextOp(Ticker) = "wait"

\* the ticker is suspended and nothing has set the tick event
Idle == Waiting /\ ~_tick_event

\* a tick pass has just ended; calls holds what ran in it
PassEnd == ticker = "alive" /\ NextOp(Ticker) = "await_tick"

OnStack(s) == \E p \in 1..Len(active_states) : s \in active_states[p].members

Ran(e) == \E p \in 1..Len(calls) : calls[p] = e

Count(e) == Cardinality({p \in 1..Len(calls) : calls[p] = e})

ExitActions(s) == Op("exit_actions", s, None, None, 0, 0)

-----------------------------------------------------------------------------
\* C1: a _transition_to(T, a1..ak) of a plain composite runs the exit_actions
\* of the source state immediately before a1, then a1..ak once each in the
\* order given, then the entry_actions of T immediately after ak; a pseudo
\* source has no exit_actions and a pseudo target has no entry_actions.
C1_TransitionOrder ==
    \A p \in 1..Len(calls) :
        LET e == calls[p]
            prev == calls[p - 1]
            next == calls[p + 1]
            hooks == {"exit_actions", "action", "entry_actions"}
        IN
        /\ (e.op = "action" /\ e.c \in Plain) =>
              /\ e.i \in 1..e.k
              /\ p > 1
              /\ IF e.i > 1 THEN prev = [e EXCEPT !.i = e.i - 1]
                 ELSE IF e.s \in PseudoStates THEN prev.op \notin hooks
                 ELSE prev = ExitActions(e.s)
              /\ p < Len(calls) =>
                    IF e.i < e.k THEN next = [e EXCEPT !.i = e.i + 1]
                    ELSE IF e.t \in PseudoStates THEN next.op \notin hooks
                    ELSE next.op = "entry_actions" /\ next.s = e.t /\ next.t = e.s
        /\ (e.op = "entry_actions" /\ e.c \in Plain) =>
              /\ e.s \notin PseudoStates
              /\ p > 1
              /\ IF e.k > 0
                 THEN prev.op = "action" /\ prev.i = e.k /\ prev.k = e.k
                      /\ prev.s = e.t /\ prev.t = e.s
                 ELSE IF e.t \in PseudoStates THEN prev.op \notin hooks
                 ELSE prev = ExitActions(e.t)

\* a transition between two real states of a plain composite ran with two
\* actions
C1_Witness ==
    /\ actions = 2
    /\ \E p \in 4..Len(calls) :
          /\ calls[p].op = "entry_actions" /\ calls[p].s = "M4_S2"
          /\ calls[p - 1].op = "action" /\ calls[p - 1].i = 2
          /\ calls[p - 2].op = "action" /\ calls[p - 2].i = 1
          /\ calls[p - 3] = ExitActions("M4_S1")

-----------------------------------------------------------------------------
\* the chain of current states below composite c: c, then its current child
\* and so on; a pseudo-state contributes nothing; a concurrent composite is
\* followed by one frame holding the real current states of its regions
RECURSIVE Path(_)
Path(c) ==
    <<Item(c)>> \o
    (IF c \in Concurrent
     THEN LET real == {_states[c][i] : i \in RegionsOf(c)} \ PseudoStates IN
          IF real = {} THEN << >> ELSE <<Frame(real)>>
     ELSE IF _state[c] \in PseudoStates THEN << >>
     ELSE IF _state[c] \in Composites THEN Path(_state[c])
     ELSE <<Item(_state[c])>>)

\* C2: whenever the ticker waits on the tick event, active_states is exactly
\* the chain root, current child of the root, ... down to the innermost
\* current state, pseudo-states contributing nothing, and a concurrent
\* composite followed by exactly one frame of its regions' real currents.
C2_StackIsPath == Waiting => active_states = Path(machine)

\* the ticker waits with a plain chain, and with a concurrent composite one
\* region of which is final
C2_Witness ==
    /\ Idle
    /\ active_states = <<Item("M5"), Item("M5_C2"), Frame({"M5_S6"})>>
    /\ _states["M5_C2"][1] = Final("M5_C2")

\* C3: the assertions of State.exit never fail: the ticker never ends with
\* an exception, and whenever a state is about to be deactivated it is the
\* top of the stack (or a member of the top frame, for a state of a region).
C3_ExitAssertionsHold ==
    /\ ticker # "failed"
    /\ err = None
    /\ \A t \in Coroutines :
          NextOp(t) = "deactivate" => ExitAssertions(Head(todo[t]).s)

\* a region's state is about to leave a frame that holds two states, and the
\* concurrent composite itself is about to be deactivated
C3_Witness ==
    /\ NextOp(1) = "deactivate"
    /\ Head(todo[1]).s = "M5_S3"
    /\ Top = Frame({"M5_S3", "M5_S6"})

-----------------------------------------------------------------------------
\* the step about to be taken is the bookkeeping of composite c's exit()
\* (its children have been exited, its own State.exit has not yet run)
Exiting(c) ==
    \E t \in Coroutines :
        /\ NextOp(t) = "remember"
        /\ Head(todo[t]).c = c
        /\ todo'[t] = Tail(todo[t])

Fn(c, s) == Op("fn", s, c, None, 0, 0)

RealChildren(c) == {s \in (Simple \cup Composites) \ Machines : Parent[s] = c}

\* what a pass that ran the history function of c left behind: c's current
\* child is a real child X, X's entry_actions ran as the target of the
\* transition from the history pseudo-state, the Initial function of c did
\* not run and no other child of c was entered
C4_Restored ==
    \A c \in Plain :
        (_history[c] /\ PassEnd /\ Ran(Fn(c, History(c)))) =>
            /\ _state[c] \in RealChildren(c)
            /\ \E p \in 1..Len(calls) :
                  /\ calls[p].op = "entry_actions"
                  /\ calls[p].s = _state[c]
                  /\ calls[p].t = History(c)
            /\ ~Ran(Fn(c, Initial(c)))
            /\ \A p \in 1..Len(calls) :
                  (calls[p].op = "entry_actions" /\ calls[p].s \in RealChildren(c))
                      => calls[p].s = _state[c]

\* an exit at a real child X records X and makes the history pseudo-state
\* current; the record is dropped only once X is the current child again
C4_Step ==
    \A c \in Plain :
        _history[c] =>
            /\ (Exiting(c) /\ _state[c] \in RealChildren(c)) =>
                  /\ state_to_return_to'[c] = _state[c]
                  /\ _state'[c] = History(c)
            /\ (state_to_return_to[c] # None
                /\ state_to_return_to'[c] # state_to_return_to[c]) =>
                  /\ state_to_return_to'[c] = None
                  /\ _state[c] = state_to_return_to[c]
            /\ (_state[c] = History(c) /\ _state'[c] # History(c)) =>
                  _state'[c] = state_to_return_to[c]

-----------------------------------------------------------------------------
\* the states its history pseudo-state remembers, one per region
Returns(c) ==
    IF c \in Concurrent THEN states_to_return_to[c] ELSE <<state_to_return_to[c]>>

\* the child the Initial transition function of c targets in region i
InitialTarget(c, i) ==
    LET fn == TransitionFns[Initial(c)] IN
    fn[CHOOSE j \in 1..Len(fn) : StateIndex(fn[j][1]) = i - 1][1].target

\* an exit at Final resets every current child to Initial and records no
\* return state; a current child that is Initial is only ever replaced by the
\* target of the Initial transition function, which then has run
C5_Step ==
    \A c \in Composites \ Machines :
        /\ (Exiting(c) /\ is_at_final_state(c)) =>
              /\ \A i \in DOMAIN Currents(c) : Currents(c)'[i] = Initial(c)
              /\ \A i \in DOMAIN Returns(c) : Returns(c)'[i] = None
        /\ \A i \in DOMAIN Currents(c) :
              (Currents(c)[i] = Initial(c) /\ Currents(c)'[i] # Initial(c)) =>
                  /\ Currents(c)'[i] = InitialTarget(c, i)
                  /\ Ran(Fn(c, Initial(c)))

\* the pass that enters a composite runs its Initial function: no composite
\* is left sitting at Initial when the ticker goes idle
C5_Entered ==
    Waiting => \A c \in Composites :
                   OnStack(c) => \A i \in DOMAIN Currents(c) : Currents(c)[i] # Initial(c)

-----------------------------------------------------------------------------
\* the state the parent's transition function moves to when composite c is
\* at its final state
CompletionTarget(c) ==
    LET fn == TransitionFns[c]
        rules == UNION {{fn[j][i] : i \in 1..Len(fn[j])} : j \in 1..Len(fn)}
    IN  (CHOOSE r \in rules : r.guard = "final" /\ r.arg = c).target

\* the pass that began with plain composite c at Final ran c's exit_actions
\* exactly once and left the completion target on the stack instead of c;
\* and the ticker never goes idle with a plain composite at Final
C6_Completed ==
    \A c \in Plain \ Machines :
        /\ (PassEnd /\ c \in calls[1].m) =>
              /\ Count(ExitActions(c)) = 1
              /\ ~OnStack(c)
              /\ ~is_at_final_state(c)
              /\ OnStack(CompletionTarget(c))
        /\ (Idle /\ OnStack(c)) => ~is_at_final_state(c)

\* C6: when a plain composite's current child becomes Final through
\* _transition_to, the tick signal is set, so that without any further
\* Event.set() or trigger_tick() a following pass runs in which the parent
\* sees is_at_final_state() true; the completion transition fires exactly
\* once and the stack shows the completion target instead of the composite.
C6_FinalTriggersTick ==
    /\ []C6_Completed
    /\ [][\A c \in Plain :
             (_state[c] # Final(c) /\ _state'[c] = Final(c)) => _tick_event']_vars

\* the first composite was final when the pass began; the pass moved to the
\* second composite and nothing asks for another pass
C6_Witness ==
    /\ PassEnd
    /\ "M4_C1" \in calls[1].m
    /\ active_states = <<Item("M4"), Item("M4_C2"), Item("M4_S3")>>
    /\ ~_tick_event

\* C7: once every region of a concurrent composite is at Final, the first
\* tick pass that starts afterwards exits the composite (its exit_actions
\* run) and then enters the parent's completion target.
C7_ConcurrentCompletion ==
    \A c \in Concurrent :
        (PassEnd /\ c \in calls[1].m) =>
            /\ ~OnStack(c)
            /\ OnStack(CompletionTarget(c))
            /\ \E p \in 1..Len(calls) : \E q \in (p + 1)..Len(calls) :
                  /\ calls[p] = ExitActions(c)
                  /\ calls[q].op = "entry_actions"
                  /\ calls[q].s = CompletionTarget(c)
                  /\ calls[q].t = c

\* both regions were final when the pass began; the pass left the concurrent
\* composite for the first composite
C7_Witness ==
    /\ PassEnd
    /\ "M5_C2" \in calls[1].m
    /\ Ran(ExitActions("M5_C2"))
    /\ active_states = <<Item("M5"), Item("M5_C1"), Item("M5_S1")>>

\* C8: ConcurrentCompositeState._transition_to never sets the tick signal:
\* a step that changes a region's current state leaves the signal as it was,
\* and while the ticker is idle nothing moves, so a concurrent composite all
\* regions of which are final waits for the caller's next trigger_tick() or
\* Event.set().
C8_NoTickFromRegions ==
    [][/\ \A c \in Concurrent :
             _states'[c] # _states[c] => _tick_event' = _tick_event
       /\ Idle => UNCHANGED <<data, calls>>]_vars

\* the ticker is idle although every region of the concurrent composite is
\* final
C8_Witness ==
    /\ Idle
    /\ is_at_final_state("M5_C2")
    /\ active_states = <<Item("M5"), Item("M5_C2")>>

\* C9: a concurrent composite's is_at_final_state() is true exactly when all
\* of its regions' current states are its Final pseudo-state, and it is
\* false again once the composite has been exited.
C9_AllRegionsFinal ==
    /\ [](\A c \in Concurrent :
             /\ is_at_final_state(c) <=>
                   Cardinality({i \in Regions : _states[c][i] = Final(c)})
                       = concurrent_state_count
             /\ ~OnStack(c) => ~is_at_final_state(c))
    /\ [][\A c \in Concurrent : Exiting(c) => ~is_at_final_state(c)']_vars

\* the concurrent composite was final when the pass began and its exit has
\* just reset its regions
C9_Witness ==
    /\ NextOp(Ticker) = "exit_actions"
    /\ Head(todo[Ticker]).s = "M5_C2"
    /\ "M5_C2" \in calls[1].m
    /\ ~is_at_final_state("M5_C2")

-----------------------------------------------------------------------------
(* Events on their own: a client performs Event.set and Event.__call__ on  *)
(* the events of a machine that has not been started; calls records the    *)
(* operations and what each poll returned.                                 *)

\* "await event.set()": the flag is set and a tick is triggered
event_set(e) ==
    /\ ticker = "unstarted"
    /\ Len(calls) < MaxOps
    /\ e \in EventsOf(machine)
    /\ _event' = [_event EXCEPT ![e] = EventSet(@)]
    /\ _tick_event' = TRUE
    /\ calls' = Append(calls, Op("set", e, None, None, 0, 0))
    /\ UNCHANGED <<construction, aside, data, ticker, todo, err>>

\* "event()": the poll returns the flag and clears it
event_call(e) ==
    /\ ticker = "unstarted"
    /\ Len(calls) < MaxOps
    /\ e \in EventsOf(machine)
    /\ _event' = [_event EXCEPT ![e] = EventCall(@).flag]
    /\ calls' = Append(calls, Op("poll", e, None, None,
                                 IF EventCall(_event[e]).result THEN 1 ELSE 0, 0))
    /\ UNCHANGED <<construction, aside, data, _tick_event, ticker, todo, err>>

EventNext ==
    \/ \E e \in Events : event_set(e)
    \/ \E e \in Events : event_call(e)

EventSpec == Init /\ [][EventNext]_vars

\* whether set() was called on event e after the last poll of e before
\* position p of the record (or since construction, if there was none)
SetSincePoll(e, p) ==
    \E q \in 1..(p - 1) :
        /\ calls[q].op = "set" /\ calls[q].s = e
        /\ \A r \in (q + 1)..(p - 1) : ~(calls[r].op = "poll" /\ calls[r].s = e)

\* C10: for every event and every sequence of set() and poll operations, a
\* poll returns true iff set() was called at least once since the previous
\* poll (or since construction), and it clears the flag: several sets give a
\* single true poll, and a poll right after a true poll returns false.
C10_PollIffSet ==
    /\ \A p \in 1..Len(calls) :
          calls[p].op = "poll" => (calls[p].i = 1 <=> SetSincePoll(calls[p].s, p))
    /\ \A e \in Events : _event[e] <=> SetSincePoll(e, Len(calls) + 1)

\* two sets, then a true poll, then a false one
C10_Witness ==
    /\ Len(calls) = 4
    /\ calls[1] = Op("set", "event_1", None, None, 0, 0)
    /\ calls[2] = calls[1]
    /\ calls[3] = Op("poll", "event_1", None, None, 1, 0)
    /\ calls[4] = Op("poll", "event_1", None, None, 0, 0)

-----------------------------------------------------------------------------
\* C13: in every reachable state no pseudo-state is an element of the
\* active-state stack or a member of a set-frame, and no pseudo-state ever
\* runs entry_actions, do_actions or exit_actions, also after a composite
\* with history has been exited before its Initial or history transition
\* function has run.
C13_NoPseudoStateActive ==
    /\ \A p \in 1..Len(active_states) :
          active_states[p].members \cap PseudoStates = {}
    /\ \A p \in 1..Len(calls) :
          calls[p].op \in {"entry_actions", "do_actions", "exit_actions"}
              => calls[p].s \notin PseudoStates

-----------------------------------------------------------------------------
\* the pass in progress (or just ended) is a quiet one so far: no composite
\* was final when it began, no poll of an event has returned true in it, and
\* no transition function of a pseudo-state has been invoked in it
Quiet ==
    /\ ticker = "alive"
    /\ calls # << >>
    /\ calls[1].m = {}
    /\ \A p \in 1..Len(calls) :
          /\ ~(calls[p].op = "poll" /\ calls[p].i = 1)
          /\ ~(calls[p].op = "fn" /\ calls[p].s \in PseudoStates)

\* C12: a tick pass during which no event flag is found set and no composite
\* on the stack has a pseudo-state as current child leaves the active-state
\* stack and every composite's current child unchanged and runs no
\* entry_actions, exit_actions or transition actions: only do_actions run.
C12_QuietPassChangesNothing ==
    /\ [](Quiet => \A p \in 1..Len(calls) :
                       calls[p].op \notin {"entry_actions", "exit_actions", "action"})
    /\ [][Quiet' => data' = data]_vars

\* a quiet pass over the concurrent composite and both its regions has ended
C12_Witness ==
    /\ PassEnd
    /\ Quiet
    /\ active_states = <<Item("M5"), Item("M5_C2"), Frame({"M5_S4", "M5_S5"})>>
    /\ Ran(Op("do_actions", "M5_S4", None, None, 0, 0))
    /\ Ran(Op("do_actions", "M5_S5", None, None, 0, 0))
    /\ Ran(Op("poll", "event_3", "M5_C2", None, 0, 0))

\* C14: in every reachable state the current child of every composite (each
\* region's current, for a concurrent composite) is a state whose parent is
\* that composite: one of its direct children or its own Initial, Final or
\* history pseudo-state.
C14_CurrentIsOwnChild ==
    \A c \in Composites :
        \A i \in DOMAIN Currents(c) : SuperState(Currents(c)[i]) = c

\* composites at a real child, at the history pseudo-state and at Initial
C14_Witness ==
    /\ _state["M4"] = "M4_C1"
    /\ _state["M4_C1"] = "M4_S2"
    /\ _state["M4_C2"] = History("M4_C2")

-----------------------------------------------------------------------------
(* Stopping (StateMachine.stop_ticker).                                    *)

\* the second test machine with history on its concurrent composite, hooks
\* that may fail, and an event loop that keeps running the task that called
\* stop_ticker (its asyncio.sleep(_POLL_INTERVAL_S) always ends)
StopInit ==
    /\ machine = "M5"
    /\ client = "tests"
    /\ _history = [c \in Composites |-> c \in {"M4_C2", "M5_C2"}]
    /\ actions = 0
    /\ Constructed

StopSpec == StopInit /\ [][FailNext]_vars /\ WF_vars(stop_ticker_returns)

\* C16: once start() has been called, a call of stop_ticker() terminates
\* whether the ticker is waiting for a signal, is in the middle of a pass or
\* has already ended with an exception; when it has returned the ticker task
\* is done and the stopped_event, if given, is set.
C16_StopTerminates ==
    /\ (stopper = "polling") ~> (stopper = "returned")
    /\ [](stopper = "returned" =>
             stopped_event /\ ticker \in {"cancelled", "failed"})

\* stop_ticker has returned for a ticker that had ended with an exception
C16_Witness ==
    /\ stopper = "returned"
    /\ stopped_event
    /\ ticker = "failed"
    /\ err = "Exception"

-----------------------------------------------------------------------------
(* Failures during a pass.                                                 *)

\* the step is one in which coroutine t raises: a hook or transition action
\* that ends without its call completing, or a failing assertion of State.exit
C17_Raised(t) ==
    /\ MayRun(t)
    /\ \/ /\ NextOp(t) \in {"do_actions", "exit_actions", "action", "entry_actions"}
          /\ calls' = calls
          /\ todo'[t] # todo[t]
       \/ /\ NextOp(t) = "deactivate"
          /\ ~ExitAssertions(Head(todo[t]).s)

C17_Step ==
    /\ \A t \in Coroutines :
          C17_Raised(t) =>
              /\ ticker' = "failed"
              /\ todo'[Ticker] = << >>
              /\ ticker = "alive" =>
                     err' = IF NextOp(t) = "deactivate" THEN "AssertionError"
                            ELSE "Exception"
    /\ ticker = "failed" =>
          /\ ticker' = "failed"
          /\ err' = err
          /\ todo'[Ticker] = << >>
          /\ Len(calls') >= Len(calls)
          /\ SubSeq(calls', 1, Len(calls)) = calls
          /\ \A p \in (Len(calls) + 1)..Len(calls') :
                calls'[p].op \notin {"do_actions", "tick"}

\* C17: when a user hook (entry_actions, do_actions, exit_actions), a
\* transition action or a stack assertion of State.exit raises during a tick
\* pass, the ticker task ends with that exception; from then on no element
\* of the stack gets a do(), and no tick pass begins, whatever events are
\* set afterwards.
C17_FailureEndsTicker == [][C17_Step]_vars

\* the do_actions of the composite raised after the root's do(): the simple
\* state above it on the stack got no do(), and an event set afterwards has
\* started nothing
C17_Witness ==
    /\ ticker = "failed"
    /\ err = "Exception"
    /\ active_states = <<Item("M5"), Item("M5_C1"), Item("M5_S1")>>
    /\ Ran(Op("do_actions", "M5", None, None, 0, 0))
    /\ ~Ran(Op("do_actions", "M5_S1", None, None, 0, 0))
    /\ _event["event_1"]
    /\ _tick_event

-----------------------------------------------------------------------------
C15_Step ==
    stopper = "returned" =>
        /\ data' = data
        /\ calls' = calls
        /\ todo' = todo
        /\ ticker' = ticker
        /\ \A e \in Events : _event[e] => _event'[e]
        /\ _tick_event => _tick_event'

\* C15: after stop_ticker() has returned, whatever Event.set() and
\* trigger_tick() calls follow, no do(), transition function, entry or exit
\* action runs and the active-state stack and every composite's current
\* child stay as they are; an Event.set() only raises the flag of its event
\* and the tick signal.
C15_NothingRunsAfterStop == [][C15_Step]_vars

-----------------------------------------------------------------------------
\* state s is where its exit() expects it: the stack top, or a member of the
\* set-frame that is the stack top when its parent is a concurrent composite
C18_AtTop(s) ==
    /\ active_states # << >>
    /\ IF SuperState(s) \in Concurrent
       THEN Top.frame /\ s \in Top.members
       ELSE ~Top.frame /\ Top.members = {s}

\* State.exit of s, past its exit_actions, takes its step
C18_Step ==
    \A t \in Coroutines :
        (MayRun(t) /\ NextOp(t) = "deactivate") =>
            LET s == Head(todo[t]).s
                below == SubSeq(active_states, 1, Len(active_states) - 1)
            IN
            /\ s \notin PseudoStates
            /\ calls # << >>
            /\ calls[Len(calls)] = ExitActions(s)
            /\ IF C18_AtTop(s)
               THEN /\ active_states' =
                          IF Top.members = {s} THEN below
                          ELSE Append(below, Frame(Top.members \ {s}))
                    /\ ticker' = ticker
               ELSE /\ active_states' = active_states
                    /\ ticker' = "failed"
                    /\ err' = "AssertionError"

\* C18: exit() of a non-pseudo state S runs the exit_actions of S and then
\* removes S from the stack; it fails with an assertion error when S is not
\* the stack top (parent a plain composite) or the stack top is not a
\* set-frame containing S (parent a concurrent composite), and then leaves
\* the stack as it is.
C18_ExitPopsOrFails == [][C18_Step]_vars

\* the exit of the plain composite has failed: a stale pseudo-state was above
\* it on the stack, and the stack still holds both
C18_Witness ==
    /\ ticker = "failed"
    /\ err = "AssertionError"
    /\ calls[Len(calls)] = ExitActions("M5_C1")
    /\ Len(active_states) = 3
    /\ active_states[2] = Item("M5_C1")
    /\ active_states[3].members \subseteq PseudoStates

-----------------------------------------------------------------------------
(* Starting again.                                                         *)

\* how many times the root is on the active-state stack
RootCount ==
    Cardinality({p \in 1..Len(active_states) : active_states[p] = Item(machine)})

\* StateMachine.start called again once stop_ticker has returned: the code
\* of start is the same whatever came before
restart ==
    /\ stopper = "returned"
    /\ Quiescent
    /\ \A t \in Coroutines : todo[t] = << >>
    /\ RootCount < MaxStarts
    /\ active_states' = activate(machine)
    /\ ticker' = "alive"
    /\ todo' = [todo EXCEPT ![Ticker] =
                    <<Op("tick", None, None, None, 0, 0),
                      Op("await_tick", None, None, None, 0, 0)>>]
    /\ stopper' = "idle"
    /\ starter' = "sleeping"
    /\ UNCHANGED <<construction, stopped_event, before, _state, _states, state_to_return_to,
                   states_to_return_to, _event, _tick_event, err, calls>>

RestartNext ==
    \/ Next
    \/ restart

RestartSpec == StopInit /\ [][RestartNext]_vars

\* C19: a machine is one-shot: once start() has been followed by
\* stop_ticker(), a second start() is rejected: the root is never pushed onto
\* the active-state stack a second time and no second ticker runs over the
\* stack the first one left.
C19_OneShot ==
    /\ RootCount <= 1
    /\ stopped_event => ticker # "alive"

-----------------------------------------------------------------------------
(* A concurrent initial transition without a region index.                 *)

\* the second test machine, the Initial transition function of its
\* concurrent composite calling _transition_to(self._state_3) for region 0
NoIndexInit ==
    /\ machine = "M5"
    /\ client = "no_region_index"
    /\ _history = [c \in Composites |-> c \in {"M4_C2", "M5_C2"}]
    /\ actions \in 0..MaxActions
    /\ Constructed

NoIndexSpec == NoIndexInit /\ [][Next]_vars

\* the Initial transition function of a concurrent composite makes a
\* _transition_to call that passes no region index
C20_Step ==
    \A t \in Coroutines :
        (MayRun(t) /\ NextOp(t) = "clause") =>
            LET h == Head(todo[t])
                fn == TransitionFns[h.s]
            IN
            (/\ h.c \in Concurrent
             /\ h.s = Initial(h.c)
             /\ h.i <= Len(fn)
             /\ Fired(fn[h.i]) # 0
             /\ ~fn[h.i][Fired(fn[h.i])].indexed)
            => /\ ticker' = "failed"
               /\ err' = "ConfigurationError"
               /\ data' = data
               /\ todo'[Ticker] = << >>

\* C20: in a concurrent composite an initial transition that calls
\* _transition_to(target) without a region index fails with a configuration
\* error; it is not applied to region 0.
C20_MissingIndexRejected == [][C20_Step]_vars

-----------------------------------------------------------------------------
(* One Event polled by several transition functions.                       *)

\* the second test machine with event_1 also passed where the tests pass
\* event_2 to the root for its second composite and event_3 to the second
\* region: the root, the plain composite and both regions poll event_1
SharedInit ==
    /\ machine = "M5"
    /\ client = "shared_event"
    /\ _history = [c \in Composites |-> c \in {"M4_C2", "M5_C2"}]
    /\ actions \in 0..MaxActions
    /\ Constructed

SharedSpec == SharedInit /\ [][Next]_vars

\* the polls of event e the step records as having returned true
C11_Hits(e) ==
    {p \in (Len(calls) + 1)..Len(calls') :
        calls'[p].op = "poll" /\ calls'[p].s = e /\ calls'[p].i = 1}

C11_Step ==
    \A e \in Events :
        /\ Cardinality(C11_Hits(e)) <= 1
        /\ C11_Hits(e) # {} => _event[e] /\ ~_event'[e]
        /\ (~_event[e] /\ _event'[e]) =>
               /\ todo' = todo
               /\ data' = data
               /\ calls' = calls
        /\ \A t \in Coroutines :
               (MayRun(t) /\ NextOp(t) = "clause") =>
                   LET h == Head(todo[t])
                       fn == TransitionFns[h.s]
                   IN
                   (/\ h.i <= Len(fn)
                    /\ Fired(fn[h.i]) # 0
                    /\ fn[h.i][Fired(fn[h.i])].guard = "event"
                    /\ fn[h.i][Fired(fn[h.i])].arg = e)
                   => C11_Hits(e) # {}

\* C11: one Event.set() fires at most one guarded transition, also when
\* several transition functions poll the same Event (in an ancestor and a
\* descendant composite, in composites entered one after the other, in two
\* regions of a concurrent composite): a transition guarded by the event
\* fires only in a poll that finds the flag set and clears it, and only
\* Event.set() raises the flag again.
C11_OneTransitionPerSet == [][C11_Step]_vars

\* in one pass the first region consumed event_1 and the second region,
\* polling the same event afterwards, saw false
C11_Witness ==
    /\ PassEnd
    /\ Count(Op("poll", "event_1", "M5_C2", None, 1, 0)) = 1
    /\ \E p \in 1..Len(calls), q \in 1..Len(calls) :
          /\ p < q
          /\ calls[p] = Op("fn", "M5_S3", "M5_C2", None, 0, 0)
          /\ calls[q] = Op("poll", "event_1", "M5_C2", None, 0, 0)
    /\ active_states = <<Item("M5"), Item("M5_C2"), Frame({"M5_S4", "M5_S5"})>>

-----------------------------------------------------------------------------
(* A concurrent composite with fewer than two regions.                     *)

\* the second test machine with "yasmi.ConcurrentCompositeState.__init__(
\* self, 1, super_state, True)" for its concurrent composite, whose Initial
\* and history functions address region 0 only
OneRegionInit ==
    /\ machine = "M5"
    /\ client = "one_region"
    /\ _history = [c \in Composites |-> c \in {"M4_C2", "M5_C2"}]
    /\ actions \in 0..MaxActions
    /\ Constructed

OneRegionSpec == OneRegionInit /\ [][Next]_vars

\* C21: constructing a concurrent composite with a region count below 2
\* fails at construction time with a configuration error: no composite with
\* fewer than two regions is ever part of a started machine.
C21_AtLeastTwoRegions ==
    ticker # "unstarted" =>
        \A c \in Concurrent :
            StateMachineOf(c) = machine => Cardinality(RegionsOf(c)) >= 2

-----------------------------------------------------------------------------
(* A composite without a transition function for its Initial pseudo-state. *)

\* the test machines, the table the plain composite of the second passes to
\* _set_transitions_per_state having no entry for self._initial
NoInitialInit ==
    /\ machine \in TestMachines
    /\ client = "no_initial"
    /\ _history = [c \in Composites |-> c \in {"M4_C2", "M5_C2"}]
    /\ actions \in 0..MaxActions
    /\ Constructed

NoInitialSpec == NoInitialInit /\ [][Next]_vars

\* the _transitions of a composite finds no function for the current child
C22_Step ==
    \A t \in Coroutines :
        (MayRun(t) /\ NextOp(t) = "transitions") =>
            LET c == Head(todo[t]).c
                keys == IF c \in Concurrent THEN RegionKeys(c) ELSE <<_state[c]>>
            IN
            (\A j \in 1..Len(keys) : ~HasTransitionFn(keys[j])) =>
                IF keys[1] = Initial(c)
                THEN /\ ticker' = "failed"
                     /\ err' \notin {None, "AssertionError", "Exception"}
                ELSE /\ data' = data
                     /\ ticker' = ticker
                     /\ calls' = calls

\* C22: on a composite's do() a missing transition-table entry for the
\* current child is a no-op (stack and current child unchanged) when the
\* current child is a real child or Final, but an error when it is Initial:
\* a composite whose table has no entry for Initial does not silently stay
\* at Initial.
C22_MissingEntry == [][C22_Step]_vars

-----------------------------------------------------------------------------
(* _handle_history without a remembered state.                             *)

\* the test machines, the last simple state of the composite with history
\* calling _handle_history on event_1 instead of going to Final
HistoryCallInit ==
    /\ machine \in TestMachines
    /\ client = "history_call"
    /\ _history = [c \in Composites |-> c \in {"M4_C2", "M5_C2"}]
    /\ actions \in 0..MaxActions
    /\ Constructed

HistoryCallSpec == HistoryCallInit /\ [][Next]_vars

\* a transition function calls _handle_history while the history
\* pseudo-state of its composite remembers nothing (for the region)
C23_Step ==
    \A t \in Coroutines :
        (MayRun(t) /\ NextOp(t) = "clause") =>
            LET h == Head(todo[t])
                fn == TransitionFns[h.s]
            IN
            (/\ h.i <= Len(fn)
             /\ Fired(fn[h.i]) # 0
             /\ fn[h.i][Fired(fn[h.i])].hist
             /\ Returns(h.c)[fn[h.i][Fired(fn[h.i])].region + 1] = None)
            => /\ ticker' = "failed"
               /\ err' = "AssertionError"
               /\ data' = data
               /\ todo'[t] = << >>

\* C23: _handle_history() (_handle_history(i) for region i of a concurrent
\* composite) called while the history pseudo-state holds no remembered
\* state fails with an error and performs no transition: the stack and the
\* composite's current child are unchanged.
C23_NoRememberedState == [][C23_Step]_vars

\* region 0 of the concurrent composite called _handle_history(0) with
\* nothing remembered: the ticker has ended and the region is where it was
C23_Witness ==
    /\ ticker = "failed"
    /\ err = "AssertionError"
    /\ calls[Len(calls)] = Op("poll", "event_1", "M5_C2", None, 1, 0)
    /\ states_to_return_to["M5_C2"][1] = None
    /\ _states["M5_C2"][1] = "M5_S4"
    /\ active_states[Len(active_states)].members = {"M5_S4", "M5_S5"}

-----------------------------------------------------------------------------
(* The return of start().                                                  *)

\* StateMachine.start: its "await asyncio.sleep(_POLL_INTERVAL_S)" ends and
\* start returns.  The ticker has run by then and is suspended: waiting for
\* the tick event, or in a hook that takes longer than the interval
start_returns ==
    /\ starter = "sleeping"
    /\ Quiescent
    /\ starter' = "returned"
    /\ UNCHANGED <<construction, stopping, before, data, _event, _tick_event, ticker,
                   todo, err, calls>>

StartNext ==
    \/ Next
    \/ start_returns

StartSpec == Init /\ [][StartNext]_vars

\* the pass in progress, or just ended, is the ticker's first: the one that
\* finds the root at Initial and runs its Initial transition function
FirstPass ==
    /\ ticker = "alive"
    /\ calls # << >>
    /\ \/ _state[machine] = Initial(machine)
       \/ Ran(Op("fn", Initial(machine), machine, None, 0, 0))

\* the ticker's first pass has ended
FirstPassEnded ==
    /\ _state[machine] # Initial(machine)
    /\ FirstPass => PassEnd

\* the stack is the root followed by the path to a simple state
C24_InitialPath ==
    /\ active_states = Path(machine)
    /\ Len(active_states) >= 2
    /\ ~Top.frame
    /\ Top.members \cap Composites = {}

\* the statement as claimed: start() returns only after the first pass, with
\* the stack holding the root and the path to the initial leaf
C24_WhenStartReturns ==
    [][(starter = "sleeping" /\ starter' = "returned")
           => (FirstPassEnded' /\ C24_InitialPath')]_vars

\* C24 (amended): when the ticker's first pass ends, which is before start()
\* returns if the hooks of the pass take less than _POLL_INTERVAL_S, the
\* root's initial transition and the initial transitions of every composite
\* entered by it have run in that pass: the stack holds the root followed by
\* the path to the initial leaf, every state on the stack has run do_actions
\* exactly once, and every state entered has run entry_actions exactly once
\* after the actions of the initial transition into it, run once each.
C24_FirstPassEnters ==
    (PassEnd /\ FirstPass) =>
        /\ C24_InitialPath
        /\ \A p \in 1..Len(active_states) :
              \A s \in active_states[p].members :
                  /\ Cardinality({q \in 1..Len(calls) :
                         calls[q].op = "do_actions" /\ calls[q].s = s}) = 1
                  /\ p > 1 =>
                        /\ Cardinality({q \in 1..Len(calls) :
                               calls[q].op = "entry_actions" /\ calls[q].s = s}) = 1
                        /\ \A j \in 1..actions :
                               Cardinality({q \in 1..Len(calls) :
                                   /\ calls[q].op = "action"
                                   /\ calls[q].t = s
                                   /\ calls[q].i = j}) = 1
        /\ Cardinality({q \in 1..Len(calls) : calls[q].op = "do_actions"})
               = Len(active_states)
        /\ Cardinality({q \in 1..Len(calls) : calls[q].op = "entry_actions"})
               = Len(active_states) - 1
        /\ Cardinality({q \in 1..Len(calls) : calls[q].op = "action"})
               = actions * (Len(active_states) - 1)

\* start() has returned after the first pass of the first test machine,
\* which entered the first composite and its first simple state with two
\* actions per transition
C24_Witness ==
    /\ starter = "returned"
    /\ PassEnd
    /\ FirstPass
    /\ actions = 2
    /\ active_states = <<Item("M4"), Item("M4_C1"), Item("M4_S1")>>

-----------------------------------------------------------------------------
(* Transitions from a state to itself.                                     *)

\* the test machines with two transitions retargeted at their source: the
\* third simple state of the first machine on event_1, and the concurrent
\* composite of the second machine on event_2
SelfInit ==
    /\ machine \in TestMachines
    /\ client = "self_transition"
    /\ _history = [c \in Composites |-> c \in {"M4_C2", "M5_C2"}]
    /\ actions \in 0..MaxActions
    /\ Constructed

SelfSpec == SelfInit /\ [][Next]_vars

\* the _transition_to(S, a1..ak) call of plain composite c that coroutine t
\* completes, S being the child it found current
C25_Step ==
    \A t \in Coroutines :
        (/\ MayRun(t)
         /\ NextOp(t) = "assign"
         /\ Head(todo[t]).c \in Plain
         /\ Head(todo[t]).s = Head(todo[t]).t) =>
            LET h == Head(todo[t])
                S == h.s
                n == Len(calls)
                p == CHOOSE q \in 1..Len(before[t]) : before[t][q] = Item(S)
            IN
            /\ \E q \in 1..Len(before[t]) : before[t][q] = Item(S)
            /\ n >= h.k + 2
            /\ calls[n - h.k - 1] = ExitActions(S)
            /\ \A j \in 1..h.k :
                  /\ calls[n - h.k - 1 + j].op = "action"
                  /\ calls[n - h.k - 1 + j].i = j
            /\ calls[n].op = "entry_actions"
            /\ calls[n].s = S
            /\ _state'[h.c] = S
            /\ active_states' = SubSeq(before[t], 1, p)

\* C25: _transition_to(S, actions) of a composite whose current child is
\* already S (an external self-transition) runs the exit_actions of S, then
\* the actions, then the entry_actions of S; afterwards S is again the
\* current child and the active-state stack down to S is the stack before
\* the call down to S.
C25_SelfTransition == [][C25_Step]_vars

\* the concurrent composite has been left and re-entered by a transition to
\* itself with two actions, both its regions having been active
C25_Witness ==
    /\ actions = 2
    /\ _state["M5"] = "M5_C2"
    /\ active_states = <<Item("M5"), Item("M5_C2")>>
    /\ Len(calls) >= 6
    /\ calls[Len(calls) - 3] = ExitActions("M5_C2")
    /\ calls[Len(calls) - 4].op = "exit_actions"
    /\ calls[Len(calls) - 5].op = "exit_actions"
    /\ calls[Len(calls)] = Op("entry_actions", "M5_C2", "M5", "M5_C2", 0, 2)
    /\ NextOp(Ticker) = "clause"

-----------------------------------------------------------------------------
\* a hook of coroutine t runs: the entry_actions of a state entered, or the
\* exit_actions of a state exited, by the _transition_to call of t
C26_Step ==
    \A t \in Coroutines :
        (MayRun(t) /\ NextOp(t) \in {"entry_actions", "exit_actions"}) =>
            LET h == Head(todo[t])
                s == h.s
                stack == before[t]
            IN
            /\ OnStack(SuperState(s))
            /\ h.op = "entry_actions" => ~OnStack(s)
            /\ (h.op = "exit_actions" /\ s \in Composites) =>
                  /\ Top = Item(s)
                  /\ \E p \in 1..Len(stack) : stack[p] = Item(s)
                  /\ \A q \in 1..Len(stack) :
                        (\E p \in 1..(q - 1) : stack[p] = Item(s)) =>
                            \A A \in stack[q].members :
                                /\ ~OnStack(A)
                                /\ Count(ExitActions(A)) = 1
                                /\ ~Ran(ExitActions(s))

\* C26: for a composite C and its child A on the active path: on the way in
\* C is on the stack, its entry_actions done, before the entry_actions of A
\* start; on the way out (C exited by its parent) the exit_actions of A are
\* done and A is popped before the exit_actions of C start, C still being
\* on the stack.
C26_NestedEntryExit == [][C26_Step]_vars

\* one pass of the first test machine left the first composite from its
\* first simple state, and entered the second composite and its first
\* simple state
C26_Witness ==
    /\ PassEnd
    /\ active_states = <<Item("M4"), Item("M4_C2"), Item("M4_S3")>>
    /\ \E p \in 1..Len(calls), q \in 1..Len(calls) :
          /\ calls[p] = ExitActions("M4_S1")
          /\ calls[p + 1] = ExitActions("M4_C1")
          /\ p + 1 < q
          /\ calls[q].op = "entry_actions" /\ calls[q].s = "M4_C2"
          /\ \E r \in (q + 1)..Len(calls) :
                calls[r].op = "entry_actions" /\ calls[r].s = "M4_S3"

-----------------------------------------------------------------------------
C27_Step ==
    /\ (todo' = todo /\ ticker' = ticker) =>
          /\ data' = data
          /\ calls' = calls
          /\ Cardinality({e \in Events : _event'[e] # _event[e]}) <= 1
          /\ \A e \in Events : _event[e] => _event'[e]
          /\ _tick_event => _tick_event'
          /\ _event' # _event => _tick_event'
    /\ (ticker # "unstarted" /\ data' # data) =>
          /\ ticker = "alive"
          /\ calls # << >>
          /\ \E t \in Coroutines : MayRun(t) /\ todo'[t] # todo[t]

\* C27: an Event.set() called from a client task changes only the flag of
\* that event and the tick signal of the driver, never the active-state
\* stack, a composite's current child or a remembered history state; after
\* start() all these change only in steps of the ticker task's tick passes.
C27_SetOnlyRaisesFlag == [][C27_Step]_vars

\* event_3 was set while the ticker waited with the plain composite active:
\* its flag and the tick signal are raised and nothing else has happened
C27_Witness ==
    /\ Waiting
    /\ _tick_event
    /\ _event = [e \in Events |-> e = "event_3"]
    /\ active_states = <<Item("M5"), Item("M5_C1"), Item("M5_S2")>>


-----------------------------------------------------------------------------
(* History of a composite whose remembered child is a composite.           *)

\* the test machines as in the tests, and the nested machine: its outer
\* composite has history, its inner composite with or without
\* (CompositeState takes has_history and no other history argument)
DeepInit ==
    /\ machine \in TestMachines \cup {"M6"}
    /\ client = "tests"
    /\ _history \in {h \in [Composites -> BOOLEAN] :
                        /\ h["M4_C2"] /\ h["M6_C"]
                        /\ \A c \in Composites \ {"M4_C2", "M6_C", "M6_D"} : ~h[c]}
    /\ (machine # "M6" => ~_history["M6_D"])
    /\ actions = 0
    /\ Constructed

DeepSpec == DeepInit /\ [][Next]_vars

\* the _handle_history call of plain composite c that coroutine t completes
\* restores a child that is itself a plain composite: that child is at its
\* initial pseudo-state
C28_Step ==
    \A t \in Coroutines :
        (/\ MayRun(t)
         /\ NextOp(t) = "assign"
         /\ Head(todo[t]).c \in Plain
         /\ Head(todo[t]).s = History(Head(todo[t]).c)
         /\ Head(todo[t]).t \in Plain) =>
            _state'[Head(todo[t]).t] = Initial(Head(todo[t]).t)

\* C28: when a composite C with history is re-entered through its history
\* transition and the restored direct child D is itself a composite, D
\* starts at its initial pseudo-state, so that its Initial transition fires
\* (there being no deep-history flag to make D resume its own child).
C28_ShallowRestartsChild == [][C28_Step]_vars


-----------------------------------------------------------------------------
(* The exit of a concurrent composite.                                     *)

\* no child of composite c is on the active-state stack
NoChildActive(c) ==
    \A p \in 1..Len(active_states) : active_states[p].members \cap RealChildren(c) = {}

\* the steps of ConcurrentCompositeState.exit of composite c after the exits
\* of its regions: the history bookkeeping, then the composite's own
\* exit_actions
C29_Step ==
    \A t \in Coroutines :
        /\ (/\ MayRun(t)
            /\ NextOp(t) = "remember"
            /\ Head(todo[t]).c \in Concurrent) =>
               LET c == Head(todo[t]).c IN
               /\ NoChildActive(c)
               /\ \A i \in RegionsOf(c) :
                     _states[c][i] \in Simple => Ran(ExitActions(_states[c][i]))
               /\ Len(todo[t]) >= 2
               /\ todo[t][2] = ExitActions(c)
               /\ IF _history[c] /\ \E i \in RegionsOf(c) : _states[c][i] # Final(c)
                  THEN /\ states_to_return_to'[c] = _states[c]
                       /\ \A i \in RegionsOf(c) : _states'[c][i] = History(c)
                  ELSE \A i \in RegionsOf(c) : _states'[c][i] = Initial(c)
        /\ (/\ MayRun(t)
            /\ NextOp(t) = "exit_actions"
            /\ Head(todo[t]).s \in Concurrent) =>
               LET c == Head(todo[t]).s IN
               /\ NoChildActive(c)
               /\ \/ \A i \in RegionsOf(c) : _states[c][i] = History(c)
                  \/ \A i \in RegionsOf(c) : _states[c][i] = Initial(c)

\* C29: on the exit of a concurrent composite C every region's current child
\* has been exited (its exit_actions have run and it is no longer on the
\* active-state stack) before C's own exit_actions run; if C has history and
\* some region is not at Final, every region's current child, Final ones
\* included, is remembered for its region and every region's current child
\* becomes the history pseudo-state; otherwise every region's current child
\* becomes Initial.
C29_ConcurrentExit == [][C29_Step]_vars

\* the concurrent composite with history is being exited with its first
\* region at Final and the second not: both are remembered
C29_Witness ==
    /\ _history["M5_C2"]
    /\ states_to_return_to["M5_C2"] = <<Final("M5_C2"), "M5_S5">>
    /\ _states["M5_C2"] = <<History("M5_C2"), History("M5_C2")>>
    /\ NextOp(Ticker) = "exit_actions"
    /\ Head(todo[Ticker]).s = "M5_C2"
    /\ Ran(ExitActions("M5_S5"))


-----------------------------------------------------------------------------
(* A transition in one region of a concurrent composite.                   *)

\* the members of the set on top of a stack, and the stack below that set
TopSet(stack) ==
    IF stack # << >> /\ stack[Len(stack)].frame
    THEN stack[Len(stack)].members ELSE {}

BelowSet(stack) ==
    IF stack # << >> /\ stack[Len(stack)].frame
    THEN SubSeq(stack, 1, Len(stack) - 1) ELSE stack

\* coroutine t is inside State.transition called by the _transition_to of a
\* concurrent composite, about to leave the source state
LeavingSource(t) ==
    /\ NextOp(t) = "deactivate"
    /\ SuperState(Head(todo[t]).s) \in Concurrent
    /\ Len(todo[t]) >= 2
    /\ todo[t][2].op \in {"action", "entry_actions", "activate"}
    /\ todo[t][2].s = Head(todo[t]).s \/ todo[t][2].t = Head(todo[t]).s

\* the steps of _transition_to(T, i, ...) of a concurrent composite that
\* change the stack or the current children: the source leaves the set, T
\* joins it, T becomes the current child of region i
C30_Step ==
    \A t \in Coroutines :
        /\ (MayRun(t) /\ LeavingSource(t) /\ ExitAssertions(Head(todo[t]).s)) =>
               /\ _states' = _states
               /\ TopSet(active_states') = TopSet(active_states) \ {Head(todo[t]).s}
               /\ BelowSet(active_states') = BelowSet(active_states)
        /\ (/\ MayRun(t)
            /\ NextOp(t) = "activate"
            /\ Head(todo[t]).c \in Concurrent) =>
               LET T == Head(todo[t]).t IN
               /\ _states' = _states
               /\ TopSet(active_states') =
                      TopSet(active_states) \cup (IF T \in FinalStates THEN {} ELSE {T})
               /\ BelowSet(active_states') = BelowSet(active_states)
        /\ (/\ MayRun(t)
            /\ NextOp(t) = "assign"
            /\ Head(todo[t]).c \in Concurrent) =>
               LET h == Head(todo[t]) IN
               /\ active_states' = active_states
               /\ _states'[h.c][h.i + 1] = h.t
               /\ \A j \in RegionsOf(h.c) \ {h.i + 1} :
                     _states'[h.c][j] = _states[h.c][j]
               /\ \A d \in Concurrent \ {h.c} : _states'[d] = _states[d]
               /\ _state' = _state

\* C30: _transition_to(T, i, ...) of a concurrent composite changes region i
\* only: leaving the source removes the source and nothing else from the set
\* on top of the active-state stack, the activation adds T (unless T is
\* Final) and nothing else to it, and the assignment makes T the current
\* child of region i and leaves every other region's current child as it is.
C30_OnlyOwnRegion == [][C30_Step]_vars

\* the first region is about to leave its first state for its second while
\* the second region's state is in the set with it
C30_Witness ==
    \E t \in Coroutines :
        /\ LeavingSource(t)
        /\ Head(todo[t]).s = "M5_S3"
        /\ _states["M5_C2"] = <<"M5_S3", "M5_S5">>
        /\ TopSet(active_states) = {"M5_S3", "M5_S5"}
        /\ todo[t][2] = Op("entry_actions", "M5_S4", "M5_C2", "M5_S3", 0, 0)


-----------------------------------------------------------------------------
(* The region transition functions awaited together.                       *)

\* the position of the first record e of the pass (0: none)
First(e) ==
    IF Ran(e) THEN CHOOSE p \in 1..Len(calls) :
                       calls[p] = e /\ \A q \in 1..(p - 1) : calls[q] # e
    ELSE 0

\* a region task leaves a state: the assertions of State.exit hold; the
\* gather of composite c returns: the stack ends with c and, unless every
\* region is at a pseudo-state, one set of the regions' current children
C31_Step ==
    /\ \A t \in Regions :
          (MayRun(t) /\ NextOp(t) = "deactivate") => ExitAssertions(Head(todo[t]).s)
    /\ (/\ MayRun(Ticker)
        /\ NextOp(Ticker) = "gather"
        /\ todo'[Ticker] = Tail(todo[Ticker])) =>
          LET c == Head(todo[Ticker]).c
              current == {_states[c][i] : i \in RegionsOf(c)} \ PseudoStates
          IN
          /\ ticker' = "alive"
          /\ TopSet(active_states) = current
          /\ BelowSet(active_states) # << >>
          /\ BelowSet(active_states)[Len(BelowSet(active_states))] = Item(c)
          /\ (\A i \in RegionsOf(c) : _states[c][i] = Final(c)) =>
                 active_states[Len(active_states)] = Item(c)

\* C31: whatever the interleaving of the region transition functions a
\* concurrent composite awaits together in one do(), no assertion on the
\* stack fails in them, and when the join completes the stack holds, directly
\* above the composite, one set of exactly the regions' current children
\* that are not pseudo-states, or no set at all if every region is at Final.
C31_JoinLeavesOneSet == [][C31_Step]_vars

\* both regions have made a transition in one do(), the second region
\* leaving its state between the exit and the entry of the first region's
\* transition, and the join is about to complete
C31_Witness ==
    /\ NextOp(Ticker) = "gather"
    /\ \A u \in Regions : NextOp(u) = "done"
    /\ _states["M5_C2"] = <<"M5_S4", "M5_S6">>
    /\ First(ExitActions("M5_S3")) > 0
    /\ First(ExitActions("M5_S3")) < First(ExitActions("M5_S5"))
    /\ \E p \in 1..Len(calls) :
          /\ calls[p].op = "entry_actions"
          /\ calls[p].s = "M5_S4"
          /\ First(ExitActions("M5_S5")) < p


-----------------------------------------------------------------------------
(* The sets on the active-state stack.                                     *)

\* the positions of the stack that hold a set with a child of composite c
SetsOf(c) ==
    {p \in 1..Len(active_states) :
        active_states[p].frame /\ active_states[p].members \cap RealChildren(c) # {}}

\* C32: in every reachable state no set on the active-state stack is empty,
\* every set sits directly above the stack entry of the concurrent composite
\* whose region children it holds, and no concurrent composite has more than
\* one set.  (For a machine started once; a second start() pushes the root
\* above the composite, and the next set lands on that root.)
C32_SetsOnStack ==
    /\ \A p \in 1..Len(active_states) :
          active_states[p].frame =>
              /\ active_states[p].members # {}
              /\ p > 1
              /\ \E c \in Concurrent :
                    /\ active_states[p - 1] = Item(c)
                    /\ active_states[p].members \subseteq RealChildren(c)
    /\ \A c \in Concurrent : Cardinality(SetsOf(c)) <= 1

\* one region of the concurrent composite has reached Final and has left the
\* set, which still holds the state of the other region
C32_Witness ==
    /\ active_states = <<Item("M5"), Item("M5_C2"), Frame({"M5_S5"})>>
    /\ _states["M5_C2"] = <<Final("M5_C2"), "M5_S5">>


-----------------------------------------------------------------------------
(* do() in the pass that enters a state.                                   *)

DoActions(s) == Op("do_actions", s, None, None, 0, 0)

\* the states on the active-state stack
Active == UNION {active_states[p].members : p \in 1..Len(active_states)}

\* C33, the statement as claimed: when a tick pass ends, every state entered
\* by a transition during the pass has had do() in it after its
\* entry_actions, every state on the
\* active-state stack has had do() in it, and no state has had do() twice:
\* the pass iterates the stack while transitions pop and push it, and yet
\* skips no active state and repeats none.
C33_DoOncePerPass ==
    PassEnd =>
        /\ \A p \in 1..Len(calls) :
              calls[p].op = "entry_actions" =>
                  \E q \in (p + 1)..Len(calls) : calls[q] = DoActions(calls[p].s)
        /\ \A s \in Active : Count(DoActions(s)) = 1
        /\ \A s \in Simple \cup Composites : Count(DoActions(s)) <= 1

\* C33 (amended): when a tick pass ends, every state on the active-state
\* stack has had do() in it exactly once, no state has had do() twice, and
\* every state entered by a transition during the pass has had do() after its
\* entry_actions, unless a later transition of the pass has exited it again
\* before the loop came to it (a transition function may call _transition_to
\* more than once): such a state gets no do() in the pass.
C33_DoUnlessExited ==
    PassEnd =>
        /\ \A p \in 1..Len(calls) :
              calls[p].op = "entry_actions" =>
                  \E q \in (p + 1)..Len(calls) :
                      calls[q] \in {DoActions(calls[p].s), ExitActions(calls[p].s)}
        /\ \A s \in Active : Count(DoActions(s)) = 1
        /\ \A s \in Simple \cup Composites : Count(DoActions(s)) <= 1

\* a pass has ended in which the transition function of the root has left
\* the concurrent composite at Final for the plain composite and, on event_2,
\* the plain composite for the concurrent one again: the stack was popped and
\* pushed under the loop, the plain composite had no do(), and the concurrent
\* composite and the states its Initial transition entered had one each
C33_Witness ==
    /\ PassEnd
    /\ active_states = <<Item("M5"), Item("M5_C2"), Frame({"M5_S3", "M5_S5"})>>
    /\ Ran(ExitActions("M5_C1"))
    /\ ~Ran(DoActions("M5_C1"))
    /\ Count(DoActions("M5_C2")) = 1
    /\ Count(DoActions("M5_S3")) = 1
    /\ Count(DoActions("M5_S5")) = 1


-----------------------------------------------------------------------------
(* The stack and the current child during a transition.                    *)

\* the steps of a transition from S to T made by the _transition_to of
\* composite c: the exit_actions of S and its removal from the stack, the
\* transition actions, the entry_actions of T, its activation, and the
\* assignment of the current child
C34_Step ==
    \A t \in Coroutines :
        LET h == Head(todo[t]) IN
        /\ (MayRun(t) /\ NextOp(t) = "exit_actions" /\ h.s \notin Machines) =>
               OnStack(h.s) /\ (calls' # calls => active_states' = active_states)
        /\ (MayRun(t) /\ NextOp(t) = "deactivate" /\ h.s \notin Machines) =>
               /\ Ran(ExitActions(h.s))
               /\ OnStack(h.s)
               /\ ticker' = ticker => ~OnStack(h.s)'
        /\ (MayRun(t) /\ NextOp(t) = "action") =>
               /\ ~OnStack(h.s) /\ ~OnStack(h.t)
               /\ calls' # calls => active_states' = active_states
        /\ (MayRun(t) /\ NextOp(t) = "entry_actions") =>
               /\ ~OnStack(h.s) /\ ~OnStack(h.t)
               /\ Current(h.c, h.i) = h.t
               /\ calls' # calls => active_states' = active_states /\ _state' = _state
                                    /\ _states' = _states
        /\ (MayRun(t) /\ NextOp(t) = "activate") =>
               /\ ~OnStack(h.t)
               /\ h.t \notin PseudoStates =>
                     \E p \in 1..Len(calls) :
                         calls[p] = Op("entry_actions", h.t, h.c, h.s, h.i, h.k)
               /\ Current(h.c, h.i) = h.s
               /\ active_states' # active_states =>
                     /\ OnStack(h.t)'
                     /\ _state' = _state /\ _states' = _states
        /\ (MayRun(t) /\ NextOp(t) = "assign") =>
               /\ h.t \notin FinalStates => OnStack(h.t)
               /\ Current(h.c, h.i) = h.s
               /\ todo'[t] # todo[t] /\ ticker' = ticker =>
                     /\ active_states' = active_states
                     /\ (IF h.c \in Concurrent THEN _states'[h.c][h.i + 1]
                         ELSE _state'[h.c]) = h.t

\* C34: during a transition from S to T, S is on the stack while its
\* exit_actions run and is popped only after they have run; neither S nor T
\* is on the stack while the transition actions and T's entry_actions run; T
\* is pushed only after its entry_actions have run; and the composite's
\* current child is still S until T has been pushed, and T from then on.
C34_TransitionSteps == [][C34_Step]_vars

\* between the two actions of a transition from the first state of a
\* composite to its second: neither is on the stack and the first is still
\* the current child
C34_Witness ==
    /\ actions = 2
    /\ active_states = <<Item("M4"), Item("M4_C1")>>
    /\ _state["M4_C1"] = "M4_S1"
    /\ NextOp(Ticker) = "action"
    /\ Head(todo[Ticker]) = Op("action", "M4_S1", "M4_C1", "M4_S2", 2, 2)
    /\ calls[Len(calls)] = Op("action", "M4_S1", "M4_C1", "M4_S2", 1, 2)


-----------------------------------------------------------------------------
(* A plain composite as the current child of a region.                     *)

\* the test machines as in the tests, and the machine with a plain composite
\* in the second region of its concurrent composite
RegionInit ==
    /\ machine \in TestMachines \cup {"M7"}
    /\ client = "tests"
    /\ _history = [c \in Composites |-> c = "M4_C2"]
    /\ actions = 0
    /\ Constructed

RegionSpec == RegionInit /\ [][Next]_vars

\* the plain composites that are the current child of a region, on the stack
\* with a sub-state of their own entered
EnteredInRegion ==
    {d \in Plain \ Machines :
        /\ SuperState(d) \in Concurrent
        /\ OnStack(d)
        /\ _state[d] \notin PseudoStates
        /\ OnStack(_state[d])}

\* a state is about to leave the stack while a plain composite is the current
\* child of a region with its sub-state entered
C35_Step ==
    \A t \in Coroutines :
        (MayRun(t) /\ NextOp(t) = "deactivate" /\ EnteredInRegion # {}) =>
            ExitAssertions(Head(todo[t]).s)

\* C35: a plain composite may be the current child of a region of a
\* concurrent composite: once its own initial transition has entered its
\* sub-state, the transitions and exits in the other regions and the exit of
\* the concurrent composite itself still satisfy the assertions of State.exit
\* on the stack.
C35_CompositeInRegion == [][C35_Step]_vars


-----------------------------------------------------------------------------
(* Ticks are not lost.                                                     *)

\* a step of the ticker task or of a task of a gather
Run ==
    \E t \in Coroutines :
        \/ tick(t) \/ for_item(t) \/ for_state(t) \/ await_tick(t) \/ wait(t)
        \/ hook(t) \/ sleep(t) \/ transitions(t) \/ task(t) \/ gather(t)
        \/ clause(t) \/ exit(t) \/ exit_region(t) \/ remember(t)
        \/ deactivate(t) \/ activated(t) \/ assign(t) \/ clear_history(t)

\* the test machines on an event loop that keeps running the tasks that are
\* ready: every hook that suspends resumes
WakeInit ==
    /\ machine \in TestMachines
    /\ client = "tests"
    /\ _history = [c \in Composites |-> c = "M4_C2"]
    /\ actions = 0
    /\ Constructed

WakeSpec == WakeInit /\ [][Next]_vars /\ WF_vars(Run)

\* the ticker has taken the tick event and is about to begin a pass
PassBegins == ticker = "alive" /\ NextOp(Ticker) = "tick" /\ ~_tick_event

\* the tick event is cleared only by the ticker on its way into a pass, and
\* an event flag only by the poll of a transition function
C36_Step ==
    /\ (_tick_event /\ ~_tick_event') => PassBegins'
    /\ \A e \in Events :
          (_event[e] /\ ~_event'[e]) =>
              \E c \in Composites :
                  \E p \in 1..Len(calls') : calls'[p] = Op("poll", e, c, None, 1, 0)

\* C36: no wake-up is lost: after every Event.set() or trigger_tick() issued
\* while the ticker task is alive, be it waiting on the tick event or
\* suspended inside a pass, the ticker takes the tick event and begins a pass
\* (unless it is stopped or ends with an exception first), and that pass runs
\* to its end; an event flag stays raised until a transition function polls
\* it, so the function of the state current in that pass finds it raised.
C36_NoLostWakeUp ==
    /\ [][C36_Step]_vars
    /\ (ticker = "alive" /\ _tick_event) ~> (PassBegins \/ ticker # "alive")
    /\ PassBegins ~> (PassEnd \/ ticker # "alive")

\* event_1 has been set while the ticker is suspended in do_actions inside a
\* pass over the second state of the first composite
C36_Witness ==
    /\ ticker = "alive"
    /\ _tick_event
    /\ _event["event_1"]
    /\ NextOp(Ticker) = "do_actions"
    /\ Head(todo[Ticker]).s = "M4_S2"
    /\ active_states = <<Item("M4"), Item("M4_C1"), Item("M4_S2")>>
    /\ Ran(Op("poll", "event_1", "M4_C1", None, 0, 0))


-----------------------------------------------------------------------------
(* Composites that are not active.                                         *)

\* C37: whenever the ticker is idle, every composite that is not on the
\* active-state stack has a pseudo-state as current child, in every region
\* the same: Initial, or the history pseudo-state if it has history and was
\* last exited with a child that was not Final (some region's, for a
\* concurrent composite) and is remembered; never a real child or Final.
C37_InactiveAtPseudoState ==
    Idle =>
        \A c \in Composites :
            ~OnStack(c) =>
                \/ \A i \in DOMAIN Currents(c) : Currents(c)[i] = Initial(c)
                \/ /\ _history[c]
                   /\ \A i \in DOMAIN Currents(c) : Currents(c)[i] = History(c)
                   /\ \A i \in DOMAIN Currents(c) : Returns(c)[i] # None
                   /\ \E i \in DOMAIN Currents(c) : Returns(c)[i] # Final(c)

\* the ticker is idle in the plain composite after the concurrent composite
\* with history has been exited with one region at Final: both its regions
\* are at the history pseudo-state
C37_Witness ==
    /\ Idle
    /\ active_states = <<Item("M5"), Item("M5_C1"), Item("M5_S1")>>
    /\ _states["M5_C2"] = <<History("M5_C2"), History("M5_C2")>>
    /\ states_to_return_to["M5_C2"] = <<Final("M5_C2"), "M5_S6">>


-----------------------------------------------------------------------------
(* The state a history pseudo-state remembers.                             *)

\* the remembered state of a plain composite changes: its exit() sets it to
\* the child current until then, or its _handle_history() clears it with the
\* restored state as the current child
C38_Step ==
    \A c \in Plain :
        state_to_return_to'[c] # state_to_return_to[c] =>
            \E t \in Coroutines :
                /\ MayRun(t)
                /\ Head(todo[t]).c = c
                /\ \/ /\ NextOp(t) = "remember"
                      /\ _history[c]
                      /\ state_to_return_to'[c] = _state[c]
                      /\ _state'[c] = History(c)
                   \/ /\ NextOp(t) = "clear_history"
                      /\ state_to_return_to'[c] = None
                      /\ _state[c] = state_to_return_to[c]
                      /\ _state'[c] = _state[c]

\* whenever the ticker is idle, a plain composite with history remembers a
\* state if and only if its current child is the history pseudo-state
C38_Idle ==
    Idle => \A c \in Plain :
                _history[c] => (state_to_return_to[c] # None <=> _state[c] = History(c))

\* C38: for every plain composite with history, whenever the ticker is idle
\* the history pseudo-state remembers a state if and only if it is the
\* composite's current child; the remembered state is set by exit() only, and
\* is cleared by _handle_history() once the restored state has become the
\* current child.
C38_RememberedIffAtHistory == []C38_Idle /\ [][C38_Step]_vars


-----------------------------------------------------------------------------
(* The transition functions a concurrent composite launches.               *)

\* the positions of the record at which the Initial or history transition
\* function of composite c was invoked, and at which c was entered
PseudoFns(c) ==
    {p \in 1..Len(calls) :
        calls[p].op = "fn" /\ calls[p].c = c /\ calls[p].s \in {Initial(c), History(c)}}

Entries(c) == {p \in 1..Len(calls) : calls[p].op = "entry_actions" /\ calls[p].s = c}

\* the do() of concurrent composite c reaches _transitions: with the first
\* region at Initial or history the one function of that pseudo-state is
\* launched, otherwise the function of every region's current child that has
\* a table entry
C39_Step ==
    \A t \in Coroutines :
        (/\ MayRun(t)
         /\ NextOp(t) = "transitions"
         /\ Head(todo[t]).c \in Concurrent) =>
            LET c == Head(todo[t]).c
                first == _states[c][1]
            IN
            IF first \in {Initial(c), History(c)}
            THEN /\ todo'[1] = IF HasTransitionFn(first)
                               THEN <<Op("task", first, c, None, 0, 0)>> ELSE << >>
                 /\ \A j \in Regions \ {1} : todo'[j] = << >>
            ELSE \A j \in RegionsOf(c) :
                     todo'[j] = IF HasTransitionFn(_states[c][j])
                                THEN <<Op("task", _states[c][j], c, None, 0, 0)>>
                                ELSE << >>

\* in the record of a pass: every invocation of the Initial or history
\* function of a concurrent composite follows an entry of the composite that
\* no earlier invocation has followed, and when the pass ends every entry of
\* a composite still active has been followed by one
C39_Once ==
    \A c \in Concurrent :
        /\ \A p \in PseudoFns(c) :
              \E q \in Entries(c) :
                  q < p /\ \A r \in PseudoFns(c) : r < p => r < q
        /\ (PassEnd /\ OnStack(c)) =>
              /\ \A q \in Entries(c) : \E p \in PseudoFns(c) : q < p
              /\ \A i \in RegionsOf(c) : _states[c][i] \notin {Initial(c), History(c)}

\* C39: on each entry of a concurrent composite its Initial (or history)
\* transition function is invoked exactly once, not once per region, in the
\* first do() after the entry, and having moved every region off Initial or
\* history it is not invoked again until the composite has been exited and
\* re-entered; in every other do() one transition function is launched for
\* every region whose current child has a table entry.
C39_OneInitialFunction == []C39_Once /\ [][C39_Step]_vars

\* the concurrent composite with history has been re-entered and its history
\* function, invoked once, has restored both regions
C39_Witness ==
    /\ PassEnd
    /\ _history["M5_C2"]
    /\ Cardinality(PseudoFns("M5_C2")) = 1
    /\ Ran(Op("fn", History("M5_C2"), "M5_C2", None, 0, 0))
    /\ active_states = <<Item("M5"), Item("M5_C2"), Frame({"M5_S4", "M5_S6"})>>


-----------------------------------------------------------------------------
(* The order of do() within a pass.                                        *)

\* C40: in the record of a tick pass the do_actions of a state follow those
\* of its parent (do() goes up the stack from the root), a composite's
\* transition function is evaluated after the composite's own do_actions, and
\* no transition function of a real child of a composite is evaluated in a
\* pass in which the composite is exited: when a transition of an ancestor
\* and one of a descendant are both enabled, the ancestor's fires, the
\* descendant is exited and its transition function is not evaluated.
C40_AncestorFirst ==
    \A p \in 1..Len(calls) :
        LET e == calls[p] IN
        /\ (e.op = "do_actions" /\ e.s \notin Machines) =>
               \E q \in 1..(p - 1) : calls[q] = DoActions(SuperState(e.s))
        /\ e.op = "fn" =>
               \E q \in 1..(p - 1) : calls[q] = DoActions(e.c)
        /\ (e.op = "exit_actions" /\ e.s \in Composites) =>
               \A q \in 1..Len(calls) :
                   ~(/\ calls[q].op \in {"fn", "poll"}
                     /\ calls[q].c = e.s
                     /\ (calls[q].op = "fn" => calls[q].s \notin PseudoStates))

\* event_1 and event_2 were both set when a pass began with the first state
\* of the first composite active: the root has left the composite on event_2
\* and the pass has ended without event_1 having been polled
C40_Witness ==
    /\ PassEnd
    /\ _event["event_1"]
    /\ Ran(Op("poll", "event_2", "M4", None, 1, 0))
    /\ Ran(ExitActions("M4_S1"))
    /\ Ran(ExitActions("M4_C1"))
    /\ active_states = <<Item("M4"), Item("M4_C2"), Item("M4_S3")>>
    /\ \A p \in 1..Len(calls) : ~(calls[p].op = "fn" /\ calls[p].s = "M4_S1")

====
